---- MODULE Spec2Model ----
(***************************************************************************)
(* The weighted task-partitioning and reduction engine of the classical   *)
(* PSHA calculators (openquake/commonlib/calculators/classical.py):       *)
(* partition of the sources in blocks, dispatch of the core function      *)
(* `classical`, reduction with agg_dicts, the tiling calculator and the   *)
(* statistics of post_execute.                                            *)
(*                                                                         *)
(* Numbers are exact rationals <<numerator, denominator>> in lowest terms. *)
(* A set of hazard curves is a sequence over the sites of one probability  *)
(* of exceedance (one intensity measure type, one level).                  *)
(***************************************************************************)
EXTENDS Integers, Sequences, FiniteSets, TLC

\* ------------------------------------------------------------- bounds
MaxSources == 3
MaxWeight == 2
MaxTasks == 3
MaxSites == 3
MaxLevel == 2
MaxValue == 4
MaxSamples == 4

VARIABLES
    \* the calculator's inputs
    sources,            \* composite_source_model.get_sources()
    sitecol,            \* self.sitecol: the positions of the sites
    rlzs_assoc,         \* self.rlzs_assoc
    oqparam,            \* self.oqparam
    persistent,         \* self.persistent
    faulty,             \* id of the source on which the core function raises (0: none)
    \* execute: the dispatch of the tasks and the reduction of their results
    pc,                 \* position of the calculator
    blocks,             \* the blocks generated by the partition
    status,             \* task index -> "todo" | "done"
    queue,              \* completed tasks not yet seen by the reducer, oldest first
    merged,             \* task indices merged in the accumulator, in arrival order
    acc,                \* the accumulator of the reduction
    returned,           \* <<>> or <<the value returned by execute>>
    \* ClassicalTilingCalculator
    tiles,              \* self.tiles
    all_args,           \* the arguments of the classical_tiling tasks
    calculator,         \* the ClassicalCalculator the tiles run
    \* post_execute
    mean_curves,        \* <<>> or <<self.mean_curves>>
    quantile,           \* <<>> or <<self.quantile>>
    stored,             \* the datasets stored under hcurves/
    weights,            \* <<>> or <<the weights passed to the statistics>>
    \* arguments and results of the functions applied on their own
    args,
    out,
    \* parallel.TaskManager
    pool                \* the worker pool: its generation and the workers' cache

inputVars == <<sources, sitecol, rlzs_assoc, oqparam, persistent, faulty>>
execVars == <<pc, blocks, status, queue, merged, acc, returned>>
tileVars == <<tiles, all_args, calculator>>
postVars == <<mean_curves, quantile, stored, weights>>
pureVars == <<args, out, pool>>
vars == <<sources, sitecol, rlzs_assoc, oqparam, persistent, faulty,
          pc, blocks, status, queue, merged, acc, returned,
          tiles, all_args, calculator, mean_curves, quantile, stored, weights,
          args, out, pool>>

\* ------------------------------------------------------------- rationals
Abs(x) == IF x < 0 THEN -x ELSE x

Max(a, b) == IF a >= b THEN a ELSE b

RECURSIVE Gcd(_, _)
Gcd(a, b) == IF b = 0 THEN a ELSE Gcd(b, a % b)

Frac(n, d) ==
    LET s == IF d < 0 THEN -1 ELSE 1
        g == Gcd(Abs(n), Abs(d))
    IN  <<(s * n) \div g, (s * d) \div g>>

Zero == <<0, 1>>
One == <<1, 1>>

FAdd(a, b) == Frac(a[1] * b[2] + b[1] * a[2], a[2] * b[2])
FSub(a, b) == Frac(a[1] * b[2] - b[1] * a[2], a[2] * b[2])
FMul(a, b) == Frac(a[1] * b[1], a[2] * b[2])
FDiv(a, b) == Frac(a[1] * b[2], a[2] * b[1])
FLe(a, b) == a[1] * b[2] <= b[1] * a[2]

RECURSIVE Pow2(_)
Pow2(n) == IF n = 0 THEN 1 ELSE 2 * Pow2(n - 1)

\* ------------------------------------------------------------- curves
\* hazardlib.calc.hazard_curve.zero_curves: N curves of zero probability
zero_curves(n) == [i \in 1..n |-> Zero]

\* hazardlib.calc.hazard_curve.agg_curves: composition of the probabilities,
\* 1 - (1 - curves) * (1 - acc), returned as a new array; Compose is
\* 1 - (1 - p) * (1 - q) on one fraction
Compose(p, q) ==
    Frac(p[2] * q[2] - (p[2] - p[1]) * (q[2] - q[1]), p[2] * q[2])

agg_curves(a, curves) == [i \in DOMAIN a |-> Compose(curves[i], a[i])]

\* acc[key] = val[key]: the accumulator's value is overwritten, not aggregated
agg_dicts_overwrite(a, val) ==
    [k \in DOMAIN a |-> IF k \in DOMAIN val THEN val[k] ELSE a[k]]

\* agg_dicts raises KeyError on acc[key] when key is not in the accumulator
agg_dicts_raises(a, val) == ~(DOMAIN val \subseteq DOMAIN a)

\* agg_dicts(acc, val): for key in val: acc[key] = agg_curves(acc[key], val[key])
agg_dicts(a, val) ==
    [k \in DOMAIN a |->
        IF k \in DOMAIN val THEN agg_curves(a[k], val[k]) ELSE a[k]]

\* ------------------------------------------------------------- sequences
RECURSIVE SortedSeq(_)
SortedSeq(S) ==
    IF S = {} THEN <<>>
    ELSE LET m == CHOOSE x \in S : \A y \in S : x <= y
         IN  <<m>> \o SortedSeq(S \ {m})

RECURSIVE Concat(_)
Concat(ss) == IF ss = <<>> THEN <<>> ELSE Head(ss) \o Concat(Tail(ss))

Range(s) == {s[i] : i \in DOMAIN s}

CeilDiv(a, b) == (a + b - 1) \div b

\* round(a / b) for a >= 0, b > 0, halves rounded up
RoundDiv(a, b) == (2 * a + b) \div (2 * b)

\* ------------------------------------------------------------- logic tree
\* The GSIM logic trees of the model: trt_model_id -> branches <<gsim, weight>>
GsimLt1 == [t \in {0} |-> << <<"A", One>> >>]
GsimLt2 == [t \in {0} |-> << <<"A", <<3, 5>> >>, <<"B", <<2, 5>> >> >>]
GsimLt3 == [t \in {0, 1} |->
              IF t = 0 THEN << <<"A", <<3, 5>> >>, <<"B", <<2, 5>> >> >>
              ELSE << <<"A", One>> >>]
GsimLt4 == [t \in {0} |->
              << <<"A", <<1, 4>> >>, <<"B", <<1, 4>> >>,
                 <<"C", <<1, 4>> >>, <<"D", <<1, 4>> >> >>]

\* the GSIM logic tree of the composite source model
CompositeLt == GsimLt3

\* the paths of the tree restricted to the trt models `trts` (a sorted
\* sequence): one branch per trt model, full enumeration
RECURSIVE EnumPaths(_, _)
EnumPaths(lt, trts) ==
    IF trts = <<>> THEN << [weight |-> One, keys |-> {}] >>
    ELSE LET rest == EnumPaths(lt, Tail(trts))
             br == lt[Head(trts)]
             n == Len(rest)
         IN  [i \in 1..(Len(br) * n) |->
                LET b == br[((i - 1) \div n) + 1]
                    r == rest[((i - 1) % n) + 1]
                IN  [weight |-> FMul(b[2], r.weight),
                     keys |-> {<<Head(trts), b[1]>>} \cup r.keys]]

\* composite_source_model.get_rlzs_assoc(filter): the realizations of the
\* logic tree reduced to the trt models accepted by the filter, and the
\* association (trt_id, gsim) -> realizations
get_rlzs_assoc(lt, effective) ==
    LET paths == EnumPaths(lt, SortedSeq(DOMAIN lt \cap effective))
    IN  [realizations |->
            [i \in DOMAIN paths |->
                [ordinal |-> i - 1, weight |-> paths[i].weight,
                 keys |-> paths[i].keys]],
         keys |-> UNION {paths[i].keys : i \in DOMAIN paths}]

\* the realizations of a logic tree sampled n times: sample i takes a path
\* of the tree, all the samples have the same weight
sample_rlzs_assoc(lt, n) ==
    LET paths == EnumPaths(lt, SortedSeq(DOMAIN lt))
        path(i) == paths[((i - 1) % Len(paths)) + 1]
    IN  [realizations |->
            [i \in 1..n |->
                [ordinal |-> i - 1, weight |-> Frac(1, n), keys |-> path(i).keys]],
         keys |-> UNION {path(i).keys : i \in 1..n}]

\* rlzs_assoc.get_gsims_by_trt_id(): trt_id -> gsims
get_gsims_by_trt_id(assoc) ==
    [t \in {k[1] : k \in assoc.keys} |-> {k[2] : k \in {x \in assoc.keys : x[1] = t}}]

\* ------------------------------------------------------------- partitioner
\* weight=operator.attrgetter('weight')
weight(item) == item.weight

\* key=operator.attrgetter('trt_model_id')
key(item) == item.trt_model_id

RECURSIVE SumWeight(_)
SumWeight(items) ==
    IF items = <<>> THEN 0 ELSE weight(Head(items)) + SumWeight(Tail(items))

MaxItemWeight(items) ==
    IF items = <<>> THEN 0
    ELSE LET i == CHOOSE i \in DOMAIN items :
                    \A j \in DOMAIN items : weight(items[j]) <= weight(items[i])
         IN  weight(items[i])

RECURSIVE InsertDesc(_, _)
InsertDesc(x, s) ==
    IF s = <<>> THEN <<x>>
    ELSE IF weight(Head(s)) >= weight(x) THEN <<Head(s)>> \o InsertDesc(x, Tail(s))
    ELSE <<x>> \o s

\* the items sorted by descending weight (stable)
RECURSIVE SortDesc(_)
SortDesc(items) ==
    IF items = <<>> THEN <<>>
    ELSE InsertDesc(items[Len(items)], SortDesc(SubSeq(items, 1, Len(items) - 1)))

\* the index of the currently-lightest bin (the first one among equals)
Lightest(bins) ==
    CHOOSE i \in DOMAIN bins :
        \A j \in DOMAIN bins :
            \/ SumWeight(bins[i]) < SumWeight(bins[j])
            \/ SumWeight(bins[i]) = SumWeight(bins[j]) /\ i <= j

RECURSIVE Assign(_, _)
Assign(items, bins) ==
    IF items = <<>> THEN bins
    ELSE Assign(Tail(items),
                [bins EXCEPT ![Lightest(bins)] = Append(@, Head(items))])

NonEmpty(b) == b # <<>>

\* the items of weight zero are left out of the bins
split_group_skip_zero(items, target) ==
    LET nb == Max(1, CeilDiv(SumWeight(items), target))
        heavy == SelectSeq(items, LAMBDA it : weight(it) > 0)
    IN  SelectSeq(Assign(SortDesc(heavy), [i \in 1..nb |-> <<>>]), NonEmpty)

\* greedy largest-first balancing of the items of one group: as many bins as
\* the group's weight needs at `target` per bin, each item of the group, the
\* heaviest first, to the currently-lightest bin; no empty block is generated
split_group(items, target) ==
    LET nb == Max(1, CeilDiv(SumWeight(items), target))
    IN  SelectSeq(Assign(SortDesc(items), [i \in 1..nb |-> <<>>]), NonEmpty)

\* a weight is accepted whatever it is
partition_raises_never(items) == FALSE

\* PartitionError: an item has a malformed (negative) weight
partition_raises(items) == \E i \in DOMAIN items : weight(items[i]) < 0

\* partition(items, targetBlockCount)
partition(items, k) ==
    IF items = <<>> THEN <<>>
    ELSE IF k <= 1 THEN <<items>>
    ELSE LET target == Max(1, RoundDiv(SumWeight(items), k))
             keys == SortedSeq({key(items[i]) : i \in DOMAIN items})
         IN  Concat([j \in DOMAIN keys |->
                 split_group(SelectSeq(items, LAMBDA it : key(it) = keys[j]),
                             target)])

\* ------------------------------------------------------------- core function
GsimShift(gsim) == IF gsim = "A" THEN 0 ELSE 1

\* the probability of exceedance a source gives at a site, for a GSIM: a
\* deterministic function of the three; zero at the sites the source does
\* not reach
SourcePoe(src, gsim, site) ==
    IF site <= src.id + 1
    THEN FSub(One, Frac(1, Pow2(src.id + GsimShift(gsim))))
    ELSE Zero

\* hazardlib.calc.hazard_curve.hazard_curves_per_trt for one GSIM: at each
\* site the composition of the probabilities of the sources
RECURSIVE hazard_curves_per_trt(_, _, _)
hazard_curves_per_trt(srcs, sites, gsim) ==
    IF srcs = <<>> THEN zero_curves(Len(sites))
    ELSE agg_curves(hazard_curves_per_trt(Tail(srcs), sites, gsim),
                    [i \in DOMAIN sites |-> SourcePoe(Head(srcs), gsim, sites[i])])

\* classical raises: the computation of a source fails, or
\* gsims_assoc[trt_model_id] has no such key
classical_raises(srcs, gsims_assoc, bad) ==
    \/ \E i \in DOMAIN srcs : srcs[i].id = bad
    \/ srcs[1].trt_model_id \notin DOMAIN gsims_assoc

\* classical(sources, sitecol, gsims_assoc, monitor): the curves of the
\* block under the key (trt_model_id of the first source, gsim)
classical(srcs, sites, gsims_assoc) ==
    LET trt_model_id == srcs[1].trt_model_id
    IN  [k \in {<<trt_model_id, g>> : g \in gsims_assoc[trt_model_id]} |->
            hazard_curves_per_trt(srcs, sites, k[2])]

\* ------------------------------------------------------------- inputs
TrtIds == {0, 1}

\* the lists of n work items: item i has id i, a trt_model_id, a weight
ItemLists(n, ws) ==
    {[i \in 1..n |-> [id |-> i, trt_model_id |-> t[i], weight |-> w[i]]] :
        t \in [1..n -> TrtIds], w \in [1..n -> ws]}

\* get_sources() lists the sources of one trt model after the other, in the
\* order of the ids of the trt models
SourceLists(n, ws) ==
    {s \in ItemLists(n, ws) :
        \A i, j \in 1..n : i <= j => s[i].trt_model_id <= s[j].trt_model_id}

\* the complete site collection of n sites
SiteCollection(n) == [i \in 1..n |-> i]

DefaultOqParam ==
    [concurrent_tasks |-> 0, number_of_logic_tree_samples |-> 0,
     mean_hazard_curves |-> FALSE, quantile_hazard_curves |-> <<>>,
     individual_curves |-> FALSE]

\* ------------------------------------------------------------- ClassicalCalculator.execute
\* the accumulator starts without any key
zerodict_no_keys(assoc, sites) == [k \in {} |-> zero_curves(Len(sites))]

\* zerodict = AccumDict((key, zc) for key in self.rlzs_assoc)
zerodict(assoc, sites) == [k \in assoc.keys |-> zero_curves(Len(sites))]

\* one block less than asked for
targetBlockCount_one_less == oqparam.concurrent_tasks - 1

\* concurrent_tasks=self.oqparam.concurrent_tasks
targetBlockCount == oqparam.concurrent_tasks

\* the result of the task of one block
TaskRaises(b) ==
    classical_raises(blocks[b], get_gsims_by_trt_id(rlzs_assoc), faulty)

TaskResult(b) == classical(blocks[b], sitecol, get_gsims_by_trt_id(rlzs_assoc))

\* execute up to the submission of the tasks: the zero accumulator is built
\* and the sources are split in blocks, one task per block
Execute ==
    /\ pc = "init"
    /\ acc' = zerodict(rlzs_assoc, sitecol)
    /\ IF partition_raises(sources)
       THEN /\ pc' = "raised"
            /\ UNCHANGED <<blocks, status>>
       ELSE /\ blocks' = partition(sources, targetBlockCount)
            /\ status' = [b \in DOMAIN blocks' |-> "todo"]
            /\ pc' = "reduce"
    /\ queue' = <<>>
    /\ merged' = <<>>
    /\ UNCHANGED <<returned, inputVars, tileVars, postVars, pureVars>>

\* a worker completes the task of block b, whatever the other workers do
RunTask(b) ==
    /\ pc \in {"reduce", "raised"}
    /\ b \in DOMAIN status
    /\ status[b] = "todo"
    /\ status' = [status EXCEPT ![b] = "done"]
    /\ queue' = Append(queue, b)
    /\ UNCHANGED <<pc, blocks, merged, acc, returned>>
    /\ UNCHANGED <<inputVars, tileVars, postVars, pureVars>>

\* the error of a task is swallowed: execute returns what was accumulated
ReduceRaiseSwallowed ==
    /\ pc' = "raised"
    /\ returned' = <<acc>>
    /\ UNCHANGED <<acc, merged>>

\* the error of a task (or of agg_dicts) propagates out of the reduction and
\* out of execute, which has no handler: nothing is returned
ReduceRaise ==
    /\ pc' = "raised"
    /\ UNCHANGED <<acc, merged, returned>>

\* the reducer takes the oldest completed task: acc = agg(acc, result)
Reduce ==
    /\ pc = "reduce"
    /\ queue # <<>>
    /\ queue' = Tail(queue)
    /\ LET b == Head(queue)
       IN  IF TaskRaises(b) \/ agg_dicts_raises(acc, TaskResult(b))
           THEN ReduceRaise
           ELSE /\ acc' = agg_dicts(acc, TaskResult(b))
                /\ merged' = Append(merged, b)
                /\ UNCHANGED <<pc, returned>>
    /\ UNCHANGED <<blocks, status, inputVars, tileVars, postVars, pureVars>>

\* execute returns as soon as no completed task waits to be merged
Return_queue_drained ==
    /\ pc = "reduce"
    /\ queue = <<>>
    /\ returned' = <<acc>>
    /\ pc' = "returned"
    /\ UNCHANGED <<blocks, status, queue, merged, acc>>
    /\ UNCHANGED <<inputVars, tileVars, postVars, pureVars>>

\* every block was merged: return curves_by_trt_gsim
Return ==
    /\ pc = "reduce"
    /\ Len(merged) = Len(blocks)
    /\ returned' = <<acc>>
    /\ pc' = "returned"
    /\ UNCHANGED <<blocks, status, queue, merged, acc>>
    /\ UNCHANGED <<inputVars, tileVars, postVars, pureVars>>

\* the state of the parts of the calculator that did not start
ExecIdle ==
    /\ pc = "init"
    /\ blocks = <<>>
    /\ status = <<>>
    /\ queue = <<>>
    /\ merged = <<>>
    /\ acc = <<>>
    /\ returned = <<>>

TileIdle == tiles = <<>> /\ all_args = <<>> /\ calculator = <<>>

PostIdle ==
    mean_curves = <<>> /\ quantile = <<>> /\ stored = {} /\ weights = <<>>

PureIdle == args = <<>> /\ out = <<>> /\ pool = <<>>

Init ==
    /\ \E n \in 0..MaxSources : sources \in SourceLists(n, 1..MaxWeight)
    /\ sitecol = SiteCollection(2)
    /\ rlzs_assoc = get_rlzs_assoc(CompositeLt, DOMAIN CompositeLt)
    /\ \E k \in 0..MaxTasks : oqparam = [DefaultOqParam EXCEPT !.concurrent_tasks = k]
    /\ persistent = TRUE
    /\ faulty \in {0, Len(sources)}
    /\ ExecIdle
    /\ TileIdle
    /\ PostIdle
    /\ PureIdle

Next ==
    \/ Execute
    \/ \E b \in 1..MaxSources : RunTask(b)
    \/ Reduce
    \/ Return

Spec == Init /\ [][Next]_vars

\* the partition on its own: any list of work items, any number of blocks
InitPartition ==
    /\ \E n \in 0..MaxSources : sources \in ItemLists(n, 0..MaxWeight)
    /\ sitecol = SiteCollection(1)
    /\ rlzs_assoc = get_rlzs_assoc(CompositeLt, DOMAIN CompositeLt)
    /\ \E k \in 0..MaxTasks : oqparam = [DefaultOqParam EXCEPT !.concurrent_tasks = k]
    /\ persistent = TRUE
    /\ faulty = 0
    /\ ExecIdle
    /\ TileIdle
    /\ PostIdle
    /\ PureIdle

NextPartition == Execute

SpecPartition == InitPartition /\ [][NextPartition]_vars

\* execute on sources of any weight, the malformed ones included
InitWeights ==
    /\ \E n \in 0..MaxSources : sources \in SourceLists(n, -1..1)
    /\ sitecol = SiteCollection(1)
    /\ rlzs_assoc = get_rlzs_assoc(CompositeLt, DOMAIN CompositeLt)
    /\ \E k \in 0..MaxTasks : oqparam = [DefaultOqParam EXCEPT !.concurrent_tasks = k]
    /\ persistent = TRUE
    /\ faulty = 0
    /\ ExecIdle
    /\ TileIdle
    /\ PostIdle
    /\ PureIdle

NextWeights ==
    \/ Execute
    \/ \E b \in 1..MaxSources : RunTask(b)
    \/ Reduce
    \/ Return

SpecWeights == InitWeights /\ [][NextWeights]_vars

\* ------------------------------------------------------------- claims on execute
\* the partial results of the blocks `order` folded into `a` one after the other
RECURSIVE FoldBlocks(_, _)
FoldBlocks(a, order) ==
    IF order = <<>> THEN a
    ELSE FoldBlocks(agg_dicts(a, TaskResult(Head(order))), Tail(order))

\* C1: whatever the order in which the results of the blocks arrived, the
\* accumulator execute returns is the one obtained by reducing the same
\* partial results in the order of the blocks, starting from the same zero
\* accumulator.
C1_ReduceOrderIndependent ==
    pc = "returned" =>
        /\ acc = FoldBlocks(zerodict(rlzs_assoc, sitecol), [b \in DOMAIN blocks |-> b])
        /\ returned = <<acc>>

\* two blocks of the same tectonic region type were merged in the order
\* opposite to the one of the blocks, and execute returned
C1_Witness ==
    /\ pc = "returned"
    /\ Len(merged) >= 2
    /\ merged[1] > merged[2]
    /\ blocks[merged[1]][1].trt_model_id = blocks[merged[2]][1].trt_model_id

\* the places <<block, index>> of the partition holding the item
Places(item) ==
    {p \in UNION {{<<b, j>> : j \in DOMAIN blocks[b]} : b \in DOMAIN blocks} :
        blocks[p[1]][p[2]] = item}

\* C3: each source is in exactly one block of the partition, at one place,
\* and the blocks hold nothing else, whatever the weights (zero included)
\* and the number of blocks asked for.
C3_PartitionComplete ==
    pc # "init" =>
        /\ \A i \in DOMAIN sources : Cardinality(Places(sources[i])) = 1
        /\ Len(Concat(blocks)) = Len(sources)

\* a source of weight zero was partitioned with others in more than one block
C3_Witness ==
    /\ pc # "init"
    /\ oqparam.concurrent_tasks > 1
    /\ Len(blocks) > 1
    /\ \E i \in DOMAIN sources : sources[i].weight = 0 /\ Places(sources[i]) # {}
    /\ \E i \in DOMAIN sources : sources[i].weight > 0

MaxBlockWeight ==
    IF blocks = <<>> THEN 0
    ELSE LET b == CHOOSE b \in DOMAIN blocks :
                    \A c \in DOMAIN blocks : SumWeight(blocks[c]) <= SumWeight(blocks[b])
         IN  SumWeight(blocks[b])

C7_FailureAborts ==
    [][/\ pc' = "raised" => returned' = <<>>
       /\ (pc = "reduce" /\ queue # <<>> /\ queue' = Tail(queue)
              /\ TaskRaises(Head(queue))) => pc' = "raised"
       /\ pc = "raised" => (pc' = "raised" /\ acc' = acc /\ merged' = merged)]_vars

\* the reduction raised after a block was merged, with the result of another
\* block completed and never merged
C7_Witness ==
    /\ pc = "raised"
    /\ faulty # 0
    /\ merged # <<>>
    /\ queue # <<>>

\* ------------------------------------------------------------- agg_dicts on its own
InputIdle ==
    /\ sources = <<>>
    /\ sitecol = SiteCollection(1)
    /\ rlzs_assoc = get_rlzs_assoc(CompositeLt, DOMAIN CompositeLt)
    /\ oqparam = DefaultOqParam
    /\ persistent = TRUE
    /\ faulty = 0

\* probabilities of exceedance 1 - 2^-k
PoeValues == {FSub(One, Frac(1, Pow2(k))) : k \in 0..MaxLevel}

MergeKeys == {<<0, "A">>, <<1, "A">>}

\* the accumulators over the same keys, one site
Accumulators == [MergeKeys -> {<<v>> : v \in PoeValues}]

InitMerge ==
    /\ InputIdle
    /\ ExecIdle
    /\ TileIdle
    /\ PostIdle
    /\ args \in Accumulators \X Accumulators \X Accumulators
    /\ out = <<>>
    /\ pool = <<>>

\* agg_dicts applied to the accumulators A, B, C = args and to the zero one
ApplyMerge ==
    /\ out = <<>>
    /\ LET A == args[1]
           B == args[2]
           C == args[3]
           Z == [k \in MergeKeys |-> zero_curves(1)]
       IN  out' = [ab_c |-> agg_dicts(agg_dicts(A, B), C),
                   a_bc |-> agg_dicts(A, agg_dicts(B, C)),
                   ab |-> agg_dicts(A, B),
                   ba |-> agg_dicts(B, A),
                   za |-> agg_dicts(Z, A),
                   az |-> agg_dicts(A, Z)]
    /\ UNCHANGED <<args, pool, inputVars, execVars, tileVars, postVars>>

NextMerge == ApplyMerge

SpecMerge == InitMerge /\ [][NextMerge]_vars

\* C2: the merge of accumulators over the same keys is associative and
\* commutative, and the zero accumulator is its identity on both sides.
C2_MergeAssocCommIdentity ==
    out # <<>> =>
        /\ out.ab_c = out.a_bc
        /\ out.ab = out.ba
        /\ out.za = args[1]
        /\ out.az = args[1]

\* the merge was applied to three different accumulators, none of them zero
\* at the first key
C2_Witness ==
    /\ out # <<>>
    /\ args[1] # args[2] /\ args[2] # args[3] /\ args[1] # args[3]
    /\ \A i \in 1..3 : args[i][<<0, "A">>] # zero_curves(1)
    /\ out.ab # args[1]

\* ------------------------------------------------------------- ClassicalTilingCalculator
\* split_in_blocks(self.sitecol, hint): contiguous tiles of near-equal size
split_in_blocks(seq, hint) ==
    SelectSeq([i \in 1..hint |->
                  SubSeq(seq, ((i - 1) * Len(seq)) \div hint + 1,
                         (i * Len(seq)) \div hint)],
              NonEmpty)

\* self.oqparam.concurrent_tasks or 1
TileHint == IF oqparam.concurrent_tasks = 0 THEN 1 ELSE oqparam.concurrent_tasks

\* the position is not moved to the end of the tile
next_position_unmoved(position, tile) == position

\* position += len(tile)
next_position(position, tile) == position + Len(tile)

\* the loop building all_args: (calculator, SiteCollection(tile), position, i, monitor)
RECURSIVE BuildArgs(_, _, _)
BuildArgs(ts, i, position) ==
    IF ts = <<>> THEN <<>>
    ELSE <<[sitecol |-> Head(ts), position |-> position, tileno |-> i]>>
         \o BuildArgs(Tail(ts), i + 1, next_position(position, Head(ts)))

\* the offset of the tile is forgotten: range(len(sitecol))
tile_indices_no_offset(position, sites) == [j \in DOMAIN sites |-> j - 1]

\* curves_by_trt_gsim.indices = range(position, position + len(sitecol))
tile_indices(position, sites) == [j \in DOMAIN sites |-> position + j - 1]

\* a trt model is kept only when some of its curves is not zero
is_effective_trt_model_nonzero(result_dict, trt_id) ==
    \E k \in DOMAIN result_dict :
        k[1] = trt_id /\ \E p \in DOMAIN result_dict[k] : result_dict[k][p] # Zero

\* is_effective_trt_model(result_dict, trt_model)
is_effective_trt_model(result_dict, trt_id) ==
    \E k \in DOMAIN result_dict : k[1] = trt_id

\* the reduction of the blocks `bl` run in process, one after the other
RECURSIVE FoldSync(_, _, _, _, _)
FoldSync(a, bl, sites, gsims_assoc, bad) ==
    IF bl = <<>> THEN [raises |-> FALSE, value |-> a]
    ELSE IF classical_raises(Head(bl), gsims_assoc, bad)
    THEN [raises |-> TRUE, value |-> a]
    ELSE IF agg_dicts_raises(a, classical(Head(bl), sites, gsims_assoc))
    THEN [raises |-> TRUE, value |-> a]
    ELSE FoldSync(agg_dicts(a, classical(Head(bl), sites, gsims_assoc)),
                  Tail(bl), sites, gsims_assoc, bad)

\* calculator.execute() run to its end inside a task
ExecuteSync(srcs, sites, assoc, k, bad) ==
    IF partition_raises(srcs)
    THEN [raises |-> TRUE, value |-> zerodict(assoc, sites)]
    ELSE FoldSync(zerodict(assoc, sites), partition(srcs, k), sites,
                  get_gsims_by_trt_id(assoc), bad)

\* agg_curves_by_trt_gsim raises KeyError on acc[k]
agg_curves_by_trt_gsim_raises(a, curves) == ~(DOMAIN curves \subseteq DOMAIN a)

\* agg_curves_by_trt_gsim: acc[k][curves_by_trt_gsim.indices] = curves_by_trt_gsim[k]
agg_curves_by_trt_gsim(a, curves, indices) ==
    [k \in DOMAIN a |->
        IF k \in DOMAIN curves
        THEN [p \in DOMAIN a[k] |->
                IF \E j \in DOMAIN indices : indices[j] = p - 1
                THEN curves[k][CHOOSE j \in DOMAIN indices : indices[j] = p - 1]
                ELSE a[k][p]]
        ELSE a[k]]

\* the inner calculator keeps the concurrent_tasks of the job
inner_concurrent_tasks_kept == oqparam.concurrent_tasks

\* oq.concurrent_tasks = 0
inner_concurrent_tasks == 0

\* ClassicalTilingCalculator.execute up to the submission of the tile tasks
TilingExecute ==
    /\ pc = "init"
    /\ tiles' = split_in_blocks(sitecol, TileHint)
    /\ oqparam' = [oqparam EXCEPT !.concurrent_tasks = inner_concurrent_tasks]
    /\ rlzs_assoc' = get_rlzs_assoc(CompositeLt, DOMAIN CompositeLt)
    /\ calculator' = [sitecol |-> <<>>, tileno |-> -1, rlzs_assoc |-> rlzs_assoc']
    /\ all_args' = BuildArgs(tiles', 0, 0)
    /\ acc' = zerodict(rlzs_assoc', sitecol)
    /\ status' = [i \in DOMAIN all_args' |-> "todo"]
    /\ queue' = <<>>
    /\ merged' = <<>>
    /\ pc' = "reduce"
    /\ UNCHANGED <<sources, sitecol, persistent, faulty, blocks, returned>>
    /\ UNCHANGED <<postVars, pureVars>>

\* the task classical_tiling of tile i, run to its end
RunTile(i) ==
    /\ pc \in {"reduce", "raised"}
    /\ i \in DOMAIN status
    /\ status[i] = "todo"
    /\ LET a == all_args[i]
           res == ExecuteSync(sources, a.sitecol, calculator.rlzs_assoc,
                              oqparam.concurrent_tasks, faulty)
       IN  /\ queue' = Append(queue,
                  [task |-> i, raises |-> res.raises, curves |-> res.value,
                   indices |-> tile_indices(a.position, a.sitecol)])
           /\ calculator' =
                  [sitecol |-> a.sitecol, tileno |-> a.tileno,
                   rlzs_assoc |->
                      IF res.raises THEN calculator.rlzs_assoc
                      ELSE get_rlzs_assoc(CompositeLt,
                               {t \in DOMAIN CompositeLt :
                                   is_effective_trt_model(res.value, t)})]
    /\ status' = [status EXCEPT ![i] = "done"]
    /\ UNCHANGED <<pc, blocks, merged, acc, returned, tiles, all_args>>
    /\ UNCHANGED <<inputVars, postVars, pureVars>>

\* the reducer takes the oldest completed tile
ReduceTile ==
    /\ pc = "reduce"
    /\ queue # <<>>
    /\ queue' = Tail(queue)
    /\ LET r == Head(queue)
       IN  IF r.raises \/ agg_curves_by_trt_gsim_raises(acc, r.curves)
           THEN ReduceRaise
           ELSE /\ acc' = agg_curves_by_trt_gsim(acc, r.curves, r.indices)
                /\ merged' = Append(merged, r.task)
                /\ UNCHANGED <<pc, returned>>
    /\ UNCHANGED <<blocks, status, inputVars, tileVars, postVars, pureVars>>

\* every tile was merged: the accumulator is returned
TilingReturn ==
    /\ pc = "reduce"
    /\ Len(merged) = Len(all_args)
    /\ returned' = <<acc>>
    /\ pc' = "returned"
    /\ UNCHANGED <<blocks, status, queue, merged, acc>>
    /\ UNCHANGED <<inputVars, tileVars, postVars, pureVars>>

InitTiling ==
    /\ \E n \in 0..MaxSources : sources \in SourceLists(n, {1})
    /\ \E n \in 1..MaxSites : sitecol = SiteCollection(n)
    /\ rlzs_assoc = get_rlzs_assoc(CompositeLt, DOMAIN CompositeLt)
    /\ \E k \in 0..MaxTasks : oqparam = [DefaultOqParam EXCEPT !.concurrent_tasks = k]
    /\ persistent = TRUE
    /\ faulty \in {0, Len(sources)}
    /\ ExecIdle
    /\ TileIdle
    /\ PostIdle
    /\ PureIdle

NextTiling ==
    \/ TilingExecute
    \/ \E i \in 1..MaxSites : RunTile(i)
    \/ ReduceTile
    \/ TilingReturn

SpecTiling == InitTiling /\ [][NextTiling]_vars

\* ------------------------------------------------------------- claims on the tiles
\* the positions [position, position + len(tile)) of tile i
TileRange(i) ==
    {all_args[i].position + j - 1 : j \in DOMAIN all_args[i].sitecol}

\* C5: the ranges [position, position + len(tile)) of the tiles are pairwise
\* disjoint and their union is [0, number of sites), for every number of
\* sites and every number of tiles.
C5_TilesPartitionRange ==
    pc # "init" =>
        /\ \A i, j \in DOMAIN all_args : i # j => TileRange(i) \cap TileRange(j) = {}
        /\ UNION {TileRange(i) : i \in DOMAIN all_args} = 0..(Len(sitecol) - 1)
        /\ \A i \in DOMAIN all_args :
              Cardinality(TileRange(i)) = Len(all_args[i].sitecol)

\* the sites were split in several tiles of different sizes
C5_Witness ==
    /\ pc # "init"
    /\ \E i, j \in DOMAIN all_args :
          Len(all_args[i].sitecol) < Len(all_args[j].sitecol)
    /\ Len(all_args) >= 2

\* the curves the calculator computes on the sites of tile i
TileCurves(i) ==
    ExecuteSync(sources, all_args[i].sitecol, rlzs_assoc, 0, faulty).value

\* C6: the reduction of the result of a tile writes, for each key, the
\* values of the tile in the slice [position, position + size) of the
\* full-size array and leaves the other positions as they were; at the end
\* every position of every key holds the value computed by the tile that
\* covers it.
C6_TileScatter ==
    /\ [][(pc = "reduce" /\ merged' # merged) =>
            LET r == Head(queue)
                a == all_args[r.task]
            IN  \A k \in DOMAIN acc : \A p \in DOMAIN acc[k] :
                    IF a.position <= p - 1 /\ p - 1 < a.position + Len(a.sitecol)
                    THEN acc'[k][p] = r.curves[k][p - a.position]
                    ELSE acc'[k][p] = acc[k][p]]_vars
    /\ [](pc = "returned" =>
            \A k \in DOMAIN acc : \A p \in DOMAIN acc[k] :
                \E i \in DOMAIN all_args :
                    /\ p - 1 \in TileRange(i)
                    /\ acc[k][p] = TileCurves(i)[k][p - all_args[i].position])

\* all the tiles, more than one, were reduced, the second before the first,
\* and some curve is not zero in the second tile
C6_Witness ==
    /\ pc = "returned"
    /\ Len(merged) >= 2
    /\ merged[1] > merged[2]
    /\ \E k \in DOMAIN acc :
          acc[k][Len(sitecol)] # Zero /\ acc[k][Len(sitecol)] # acc[k][1]

\* ------------------------------------------------------------- ClassicalCalculator.post_execute
RECURSIVE FSum(_)
FSum(s) == IF s = <<>> THEN Zero ELSE FAdd(Head(s), FSum(Tail(s)))

\* numpy.clip(x, lo, hi) = minimum(maximum(x, lo), hi) on rationals
FClip(x, lo, hi) ==
    LET m == IF FLe(lo, x) THEN x ELSE lo
    IN  IF FLe(m, hi) THEN m ELSE hi

\* rlzs_assoc.combine_curves(results, agg, acc): for each realization, the
\* aggregation of the curves of the keys (trt_id, gsim) of the realization
RECURSIVE FoldKeys(_, _, _)
FoldKeys(a, results, keys) ==
    IF keys = {} THEN a
    ELSE LET k == CHOOSE x \in keys : TRUE
         IN  FoldKeys(agg_curves(a, results[k]), results, keys \ {k})

combine_curves(assoc, results, zc) ==
    [r \in DOMAIN assoc.realizations |->
        FoldKeys(zc, results, assoc.realizations[r].keys \cap DOMAIN results)]

\* scientific.mean_curve(values, weights): the average of the curves, point
\* by point; weights <<>> stands for None, the arithmetic mean
mean_curve(values, ws) ==
    LET n == Len(values)
        w == IF ws = <<>> THEN [r \in 1..n |-> One] ELSE ws
    IN  [i \in DOMAIN values[1] |->
            FDiv(FSum([r \in 1..n |-> FMul(w[r], values[r][i])]), FSum(w))]

\* the pairs <<poe, weight>> in the order of the poes
RECURSIVE InsertPoe(_, _)
InsertPoe(x, s) ==
    IF s = <<>> THEN <<x>>
    ELSE IF FLe(s[1][1], x[1]) THEN <<s[1]>> \o InsertPoe(x, Tail(s))
    ELSE <<x>> \o s

RECURSIVE SortPoes(_)
SortPoes(s) ==
    IF s = <<>> THEN <<>>
    ELSE InsertPoe(s[Len(s)], SortPoes(SubSeq(s, 1, Len(s) - 1)))

\* the quantile of unweighted data: the first and the last plotting position
\* are 0.4, the quantile is interpolated between two consecutive sorted values
quantile_unweighted(data, q) ==
    LET n == Len(data)
        sorted == SortPoes([r \in 1..n |-> <<data[r], One>>])
        m == FAdd(<<2, 5>>, FMul(<<1, 5>>, q))
        aleph == FAdd(FMul(<<n, 1>>, q), m)
        c == FClip(aleph, One, <<n - 1, 1>>)
        k == c[1] \div c[2]
        gamma == FClip(FSub(aleph, <<k, 1>>), Zero, One)
        lower == sorted[IF k = 0 THEN n ELSE k][1]
        upper == sorted[k + 1][1]
    IN  FAdd(FMul(FSub(One, gamma), lower), FMul(gamma, upper))

\* the quantile of weighted data: the linear interpolation of the sorted
\* values at the cumulated weights
quantile_weighted(data, ws, q) ==
    LET n == Len(data)
        sorted == SortPoes([r \in 1..n |-> <<data[r], ws[r]>>])
        xp == [r \in 1..n |-> FSum([j \in 1..r |-> sorted[j][2]])]
        fp == [r \in 1..n |-> sorted[r][1]]
    IN  IF FLe(q, xp[1]) THEN fp[1]
        ELSE IF FLe(xp[n], q) THEN fp[n]
        ELSE LET i == CHOOSE j \in 1..(n - 1) :
                        FLe(xp[j], q) /\ FLe(q, xp[j + 1]) /\ q # xp[j + 1]
                 slope == FDiv(FSub(fp[i + 1], fp[i]), FSub(xp[i + 1], xp[i]))
             IN  FAdd(fp[i], FMul(FSub(q, xp[i]), slope))

\* scientific.quantile_curve(curves, quantile, weights), point by point
quantile_curve(curves, q, ws) ==
    [i \in DOMAIN curves[1] |->
        LET data == [r \in DOMAIN curves |-> curves[r][i]]
        IN  IF ws = <<>> THEN quantile_unweighted(data, q)
            ELSE quantile_weighted(data, ws, q)]

\* self.store_curves(dset, curves): h5['hcurves/' + dset] = curves, nothing
\* if the calculator is not persistent; the dataset 'rlz-%d', 'mean' or
\* 'quantile-%s' is named by its kind and its number
store_curves(st, kind, of, curves) ==
    IF ~persistent THEN st
    ELSE {x \in st : ~(x.kind = kind /\ x.of = of)}
            \cup {[kind |-> kind, of |-> of, curves |-> curves]}

RECURSIVE store_each(_, _, _, _)
store_each(st, kind, names, curves) ==
    IF names = {} THEN st
    ELSE LET n == CHOOSE x \in names : TRUE
         IN  store_each(store_curves(st, kind, n, curves[n]), kind,
                        names \ {n}, curves)

\* the statistics are computed even for a single realization
cannot_compute_statistics_never(rlzs) == Len(rlzs) = 0

\* if len(rlzs) == 1:  # cannot compute statistics
cannot_compute_statistics(rlzs) == Len(rlzs) = 1

\* the weights are never passed
post_weights_none(rlzs) == <<>>

\* weights = (None if oq.number_of_logic_tree_samples
\*            else [rlz.weight for rlz in rlzs]); <<>> stands for None
post_weights(rlzs) ==
    IF oqparam.number_of_logic_tree_samples # 0 THEN <<>>
    ELSE [r \in DOMAIN rlzs |-> rlzs[r].weight]

\* the quantile is taken from the other end
post_quantile_complement(curves, q, ws) ==
    quantile_curve(curves, FSub(One, q), ws)

\* curves = [curves_by_rlz[rlz][imt] for rlz in rlzs]
\* qc[imt] = scientific.quantile_curve(curves, q, weights)
post_quantile(curves, q, ws) == quantile_curve(curves, q, ws)

\* the set of the elements of a sequence
Elements(seq) == {seq[i] : i \in DOMAIN seq}

PostExecute ==
    /\ pc = "returned"
    /\ LET curves_by_trt_gsim == returned[1]
           zc == zero_curves(Len(sitecol))
           curves_by_rlz == combine_curves(rlzs_assoc, curves_by_trt_gsim, zc)
           rlzs == rlzs_assoc.realizations
           ordinal == [o \in {<<rlzs[r].ordinal, 1>> : r \in DOMAIN rlzs} |->
                          curves_by_rlz[o[1] + 1]]
           individual ==
               IF oqparam.individual_curves
               THEN store_each(stored, "rlz", DOMAIN ordinal, ordinal)
               ELSE stored
       IN  IF cannot_compute_statistics(rlzs)
           THEN /\ mean_curves' = <<curves_by_rlz[1]>>
                /\ stored' = individual
                /\ UNCHANGED <<quantile, weights>>
           ELSE LET w == post_weights(rlzs)
                    mean == oqparam.mean_hazard_curves
                    qs == Elements(oqparam.quantile_hazard_curves)
                    mc == mean_curve(curves_by_rlz, w)
                    qd == [q \in qs |-> post_quantile(curves_by_rlz, q, w)]
                    with_mean ==
                        IF mean THEN store_curves(individual, "mean", Zero, mc)
                        ELSE individual
                IN  /\ weights' = <<w>>
                    /\ mean_curves' = IF mean THEN <<mc>> ELSE mean_curves
                    /\ quantile' = <<qd>>
                    /\ stored' = store_each(with_mean, "quantile", qs, qd)
    /\ pc' = "done"
    /\ UNCHANGED <<inputVars, blocks, status, queue, merged, acc, returned,
                   tileVars, pureVars>>

\* the logic trees of the calculations whose curves are post-processed
PostLts == {GsimLt1, GsimLt2, GsimLt3, GsimLt4}

\* the curves computed for a key: one value per site
PostValues == {<<v, 1>> : v \in 1..MaxValue}

\* the quantiles asked for in the job.ini
QuantileLists == {<<>>, << <<1, 10>>, <<1, 2>>, <<9, 10>> >>}

\* post_execute on its own: any curves by (trt_id, gsim), full enumeration
\* of the logic tree or sampling
InitPost ==
    /\ sources = <<>>
    /\ sitecol = SiteCollection(1)
    /\ \E lt \in PostLts, n \in 0..MaxSamples, m \in BOOLEAN, i \in BOOLEAN,
          qs \in QuantileLists :
          /\ oqparam = [DefaultOqParam EXCEPT
                            !.number_of_logic_tree_samples = n,
                            !.mean_hazard_curves = m,
                            !.individual_curves = i,
                            !.quantile_hazard_curves = qs]
          /\ rlzs_assoc = IF n = 0 THEN get_rlzs_assoc(lt, DOMAIN lt)
                          ELSE sample_rlzs_assoc(lt, n)
    /\ persistent \in BOOLEAN
    /\ faulty = 0
    /\ pc = "returned"
    /\ blocks = <<>>
    /\ status = <<>>
    /\ queue = <<>>
    /\ merged = <<>>
    /\ returned \in {<<c>> : c \in [rlzs_assoc.keys -> [DOMAIN sitecol -> PostValues]]}
    /\ acc = returned[1]
    /\ TileIdle
    /\ PostIdle
    /\ PureIdle

NextPost == PostExecute

SpecPost == InitPost /\ [][NextPost]_vars

\* ------------------------------------------------------------- claims on post_execute
\* the curves of the realizations, as post_execute combines them
CurvesByRlz == combine_curves(rlzs_assoc, returned[1], zero_curves(Len(sitecol)))

NumRlzs == Len(rlzs_assoc.realizations)

\* C8: with exactly one realization, post_execute sets the mean curves to
\* the curves of that realization, unchanged, and neither computes nor
\* stores a mean or a quantile, whatever the job asks for.
C8_SingleRealizationPassthrough ==
    (pc = "done" /\ NumRlzs = 1) =>
        /\ mean_curves = <<CurvesByRlz[1]>>
        /\ \A k \in DOMAIN returned[1] :
              rlzs_assoc.realizations[1].keys = {k} =>
                  mean_curves[1] = returned[1][k]
        /\ quantile = <<>>
        /\ weights = <<>>
        /\ \A x \in stored : x.kind = "rlz"

\* a persistent calculator with one realization was asked for the mean and
\* the quantiles, and the individual curves were stored
C8_Witness ==
    /\ pc = "done"
    /\ NumRlzs = 1
    /\ persistent
    /\ oqparam.mean_hazard_curves
    /\ oqparam.quantile_hazard_curves # <<>>
    /\ oqparam.individual_curves
    /\ stored # {}
    /\ mean_curves[1][1] = <<3, 1>>

\* C9: with several realizations the mean asked for is, at each point, the
\* sum of weight * value over the sum of the weights; the weights are the
\* weights of the realizations under full enumeration and None (the
\* arithmetic mean) exactly when number_of_logic_tree_samples is not zero;
\* the weights 0.6 and 0.4 with the values 1.0 and 2.0 give 1.4.
C9_WeightedMean ==
    (pc = "done" /\ NumRlzs >= 2) =>
        LET rlzs == rlzs_assoc.realizations
            sampling == oqparam.number_of_logic_tree_samples # 0
            w == [r \in DOMAIN rlzs |-> IF sampling THEN One ELSE rlzs[r].weight]
        IN  /\ weights # <<>>
            /\ (weights[1] = <<>>) <=> sampling
            /\ ~sampling => weights[1] = [r \in DOMAIN rlzs |-> rlzs[r].weight]
            /\ oqparam.mean_hazard_curves =>
                  /\ mean_curves # <<>>
                  /\ \A i \in DOMAIN sitecol :
                        FMul(mean_curves[1][i], FSum(w)) =
                            FSum([r \in DOMAIN rlzs |-> FMul(w[r], CurvesByRlz[r][i])])
                  /\ (/\ ~sampling
                      /\ [r \in DOMAIN rlzs |-> rlzs[r].weight] = << <<3, 5>>, <<2, 5>> >>
                      /\ CurvesByRlz = << <<One>>, << <<2, 1>> >> >>)
                        => mean_curves[1] = << <<7, 5>> >>
            /\ ~oqparam.mean_hazard_curves => mean_curves = <<>>

\* the mean of the values 1.0 and 2.0 of two realizations of weights 0.6
\* and 0.4 was computed and stored
C9_Witness ==
    /\ pc = "done"
    /\ NumRlzs = 2
    /\ oqparam.number_of_logic_tree_samples = 0
    /\ oqparam.mean_hazard_curves
    /\ CurvesByRlz = << <<One>>, << <<2, 1>> >> >>
    /\ mean_curves = << << <<7, 5>> >> >>
    /\ \E x \in stored : x.kind = "mean"

\* all the realizations have the same weight
EqualWeights ==
    \A r \in DOMAIN rlzs_assoc.realizations :
        rlzs_assoc.realizations[r].weight = rlzs_assoc.realizations[1].weight

\* C10: the quantile curves are, at each point, non-decreasing in q; with
\* four realizations of equal weights whose values at a point are 1, 2, 3
\* and 4 the 0.5-quantile at that point is between 2 and 3 inclusive.
C10_QuantileMonotone ==
    (pc = "done" /\ quantile # <<>>) =>
        LET qd == quantile[1]
        IN  /\ DOMAIN qd = Elements(oqparam.quantile_hazard_curves)
            /\ \A q1, q2 \in DOMAIN qd : \A i \in DOMAIN sitecol :
                  FLe(q1, q2) => FLe(qd[q1][i], qd[q2][i])
            /\ \A i \in DOMAIN sitecol :
                  (/\ NumRlzs = 4
                   /\ EqualWeights
                   /\ {CurvesByRlz[r][i] : r \in 1..NumRlzs} = {<<v, 1>> : v \in 1..4}
                   /\ <<1, 2>> \in DOMAIN qd)
                     => FLe(<<2, 1>>, qd[<<1, 2>>][i]) /\ FLe(qd[<<1, 2>>][i], <<3, 1>>)

\* four sampled realizations of values 4, 2, 1, 3: the median is strictly
\* between the 0.1-quantile and the 0.9-quantile
C10_Witness ==
    /\ pc = "done"
    /\ NumRlzs = 4
    /\ oqparam.number_of_logic_tree_samples # 0
    /\ CurvesByRlz = << << <<4, 1>> >>, << <<2, 1>> >>, << <<1, 1>> >>, << <<3, 1>> >> >>
    /\ quantile # <<>>
    /\ <<1, 2>> \in DOMAIN quantile[1]
    /\ FLe(<<2, 1>>, quantile[1][<<1, 2>>][1])
    /\ quantile[1][<<1, 10>>][1] # quantile[1][<<1, 2>>][1]
    /\ quantile[1][<<1, 2>>][1] # quantile[1][<<9, 10>>][1]

\* ------------------------------------------------------------- claims on the number of blocks
\* C11: the result execute returns with a positive concurrent_tasks is the
\* result of the same calculation with any other positive concurrent_tasks:
\* the number of blocks does not change the outcome.
C11_SameResultForAnyConcurrency ==
    (pc = "returned" /\ oqparam.concurrent_tasks > 0) =>
        \A k \in 1..MaxTasks :
            ExecuteSync(sources, sitecol, rlzs_assoc, k, faulty)
                = [raises |-> FALSE, value |-> returned[1]]

\* the sources of a block that belong to the trt model t
OfTrt(block, t) == SelectSeq(block, LAMBDA src : key(src) = t)

\* C12: every block holds the sources of one trt_model_id only, for every
\* concurrent_tasks (0 and 1 included), so that the curves classical puts
\* under the keys of the first source's trt model are the curves of the
\* sources of that trt model in the block.
C12_BlocksHomogeneous ==
    pc # "init" =>
        \A b \in DOMAIN blocks :
            /\ \A i \in DOMAIN blocks[b] : key(blocks[b][i]) = key(blocks[b][1])
            /\ \A k \in DOMAIN TaskResult(b) :
                  TaskResult(b)[k] =
                      hazard_curves_per_trt(OfTrt(blocks[b], k[1]), sitecol, k[2])

\* C13: asked for 0, 1 or a negative number of blocks, partition returns the
\* single block of all the items (no block at all when there is no item);
\* the tiling calculator sets concurrent_tasks to 0, so the pipeline run
\* inside each tile works on that single block.
C13_SerialModeSingleBlock ==
    pc # "init" =>
        /\ oqparam.concurrent_tasks = 0
        /\ sources # <<>> => partition(sources, oqparam.concurrent_tasks) = <<sources>>
        /\ \A k \in (-MaxTasks)..1 :
              sources # <<>> => partition(sources, k) = <<sources>>

\* several tiles were asked for, one of them was computed, from sources of
\* two trt models
C13_Witness ==
    /\ pc = "reduce"
    /\ Len(all_args) >= 2
    /\ \E i \in DOMAIN status : status[i] = "done"
    /\ Len(sources) >= 2
    /\ sources[1].trt_model_id # sources[Len(sources)].trt_model_id

\* C14: without any source the partition succeeds and has no block, for
\* every concurrent_tasks: no task is run, nothing raises, and execute
\* returns the zero accumulator, one zero curve per key of the realizations.
C14_EmptyInputNoBlock ==
    sources = <<>> =>
        /\ pc # "raised"
        /\ pc # "init" =>
              blocks = <<>> /\ status = <<>> /\ queue = <<>> /\ merged = <<>>
        /\ pc = "returned" =>
              returned = <<[k \in rlzs_assoc.keys |->
                              [i \in DOMAIN sitecol |-> Zero]]>>

\* execute returned without any source, several blocks being asked for
C14_Witness ==
    /\ sources = <<>>
    /\ pc = "returned"
    /\ oqparam.concurrent_tasks > 1
    /\ DOMAIN returned[1] # {}

\* ------------------------------------------------------------- agg_dicts on any keys
\* the accumulators over some of the keys, one site
PartialAccumulators ==
    UNION {[K -> {<<v>> : v \in PoeValues}] : K \in SUBSET MergeKeys}

InitMergeKeys ==
    /\ InputIdle
    /\ ExecIdle
    /\ TileIdle
    /\ PostIdle
    /\ args \in PartialAccumulators \X PartialAccumulators
    /\ out = <<>>
    /\ pool = <<>>

\* agg_dicts(acc, val) with acc, val = args: the loop over the keys of val
\* updates acc in place and stops at the first key that acc does not have,
\* the keys updated before it being any of the keys in both
ApplyAggDicts ==
    /\ out = <<>>
    /\ LET a == args[1]
           val == args[2]
       IN  IF agg_dicts_raises(a, val)
           THEN \E done \in SUBSET (DOMAIN a \cap DOMAIN val) :
                   out' = [raises |-> TRUE,
                           acc |-> agg_dicts(a, [k \in done |-> val[k]])]
           ELSE out' = [raises |-> FALSE, acc |-> agg_dicts(a, val)]
    /\ UNCHANGED <<args, pool, inputVars, execVars, tileVars, postVars>>

NextMergeKeys == ApplyAggDicts

SpecMergeKeys == InitMergeKeys /\ [][NextMergeKeys]_vars

C16_ContextReadOnly ==
    [][(pc = "reduce" \/ pc = "raised") =>
          (/\ calculator' = calculator
           /\ oqparam' = oqparam
           /\ sitecol' = sitecol
           /\ rlzs_assoc' = rlzs_assoc)]_vars

\* ------------------------------------------------------------- claims on the dispatch
\* C17: when a source has a negative weight the partition is refused before
\* any block is built: execute raises, no task is submitted or run, nothing
\* is merged and nothing is returned.
C17_NegativeWeightRejected ==
    (\E i \in DOMAIN sources : sources[i].weight < 0) =>
        /\ pc \in {"init", "raised"}
        /\ blocks = <<>>
        /\ status = <<>>
        /\ queue = <<>>
        /\ merged = <<>>
        /\ returned = <<>>

\* execute raised on sources of which one has a negative weight, the
\* others being well formed, several blocks being asked for
C17_Witness ==
    /\ pc = "raised"
    /\ oqparam.concurrent_tasks > 1
    /\ \E i \in DOMAIN sources : sources[i].weight < 0
    /\ \E i \in DOMAIN sources : sources[i].weight > 0

\* the number of times block b is in the sequence s
Occurrences(s, b) == Cardinality({i \in DOMAIN s : s[i] = b})

\* C18: there is one task per block; a task that ran is never run again,
\* also after a failure, and its result is taken at most once; when execute
\* returns every block was run once and merged once, so the number of
\* partial results merged is the number of blocks.
C18_OncePerBlock ==
    /\ [][/\ \A b \in DOMAIN status :
                status[b] = "done" => (b \in DOMAIN status' /\ status'[b] = "done")
          /\ pc # "init" => blocks' = blocks]_vars
    /\ [](pc \in {"reduce", "returned"} => DOMAIN status = DOMAIN blocks)
    /\ [](\A b \in DOMAIN status :
              /\ Occurrences(queue, b) + Occurrences(merged, b) <= 1
              /\ status[b] = "todo" =>
                    Occurrences(queue, b) + Occurrences(merged, b) = 0)
    /\ [](pc = "returned" =>
              /\ Len(merged) = Len(blocks)
              /\ \A b \in DOMAIN blocks :
                    status[b] = "done" /\ Occurrences(merged, b) = 1)

\* execute returned after three blocks were run and merged
C18_Witness ==
    /\ pc = "returned"
    /\ Len(blocks) = 3
    /\ Len(merged) = 3
    /\ merged[1] = 3

\* the results of the tiles `order` scattered into `a` one after the other
RECURSIVE FoldTiles(_, _)
FoldTiles(a, order) ==
    IF order = <<>> THEN a
    ELSE LET i == Head(order)
         IN  FoldTiles(agg_curves_by_trt_gsim(a, TileCurves(i),
                           [j \in DOMAIN all_args[i].sitecol |->
                               all_args[i].position + j - 1]),
                       Tail(order))

\* C19: the result of a tile task is the curves of its own tile at its own
\* positions, whatever the tasks that ran before it, and the accumulator
\* returned is the one obtained by scattering the results in the order of
\* the tiles, for every order in which the tasks ran and completed.
C19_TilesIndependent ==
    /\ \A n \in DOMAIN queue :
          ~queue[n].raises =>
              /\ queue[n].curves = TileCurves(queue[n].task)
              /\ {queue[n].indices[j] : j \in DOMAIN queue[n].indices}
                    = TileRange(queue[n].task)
    /\ pc = "returned" =>
          acc = FoldTiles(zerodict(rlzs_assoc, sitecol),
                          [i \in DOMAIN all_args |-> i])

\* three tiles were computed and reduced, the last one first
C19_Witness ==
    /\ pc = "returned"
    /\ merged = <<3, 1, 2>>
    /\ sources # <<>>
    /\ \E k \in DOMAIN acc : acc[k][1] # acc[k][3]


\* the trt model t gives nothing in the curves of a tile: every value under
\* its keys is zero, or it has no key
ZeroContribution(curves, t) ==
    \A k \in DOMAIN curves :
        k[1] = t => \A p \in DOMAIN curves[k] : curves[k][p] = Zero

\* C24: after each tile the realization association is rebuilt with the
\* filter is_effective_trt_model, true of a trt model exactly when its id is
\* the trt_id of a key of the result of the tile; a trt model with zero
\* contribution inside the tile is thereby dropped from the association
C24_ZeroContributionDropped ==
    [][(Len(queue') > Len(queue) /\ ~queue'[Len(queue')].raises) =>
          LET r == queue'[Len(queue')]
          IN  /\ calculator'.rlzs_assoc =
                    get_rlzs_assoc(CompositeLt,
                        {t \in DOMAIN CompositeLt :
                            \E k \in DOMAIN r.curves : k[1] = t})
              /\ \A t \in DOMAIN CompositeLt :
                    ZeroContribution(r.curves, t) =>
                        \A k \in calculator'.rlzs_assoc.keys : k[1] # t]_vars


\* what ClassicalCalculator.execute returns on the full site collection
\* with k concurrent tasks
Untiled(k) == ExecuteSync(sources, sitecol, rlzs_assoc, k, faulty).value

\* C25: the accumulator returned by ClassicalTilingCalculator.execute is,
\* key by key and position by position, the one ClassicalCalculator.execute
\* returns on the full site collection, for every number of tiles and every
\* concurrent_tasks of the untiled calculation
C25_TiledEqualsUntiled ==
    pc = "returned" =>
        \A k \in 0..MaxTasks : returned[1] = Untiled(k)


\* the core function fails on a source of the calculation
SomeSourceFaulty == \E i \in DOMAIN sources : sources[i].id = faulty

\* C26: in every run of the tiling calculator, for every order of the
\* tiles, each key of the result of a tile is a key of the full-size
\* accumulator, and each key a worker returns is a key of the zero
\* accumulator it is merged into: a tile fails only when the core function
\* fails on a source, and the reduction only when a tile failed; neither
\* agg_dicts nor agg_curves_by_trt_gsim fails on a missing key
C26_NoMissingKey ==
    /\ \A n \in DOMAIN queue :
          /\ ~queue[n].raises =>
                /\ DOMAIN queue[n].curves \subseteq DOMAIN acc
                /\ ~agg_curves_by_trt_gsim_raises(acc, queue[n].curves)
          /\ queue[n].raises => SomeSourceFaulty
    /\ pc = "raised" => SomeSourceFaulty

\* the tiles of sources of both trt models were computed and reduced, the
\* second tile before the first
C26_Witness ==
    /\ pc = "returned"
    /\ Len(merged) >= 2
    /\ merged[1] = 2
    /\ \E i \in DOMAIN sources : \E j \in DOMAIN sources :
          sources[i].trt_model_id # sources[j].trt_model_id

\* ------------------------------------------ get_filtered_source_models
NumModels == 2          \* source models in the source model logic tree
TrtsPerModel == 2       \* tectonic region type models per source model
NumSlots == NumModels * TrtsPerModel

\* the set S of integers as a sequence in descending order
RECURSIVE Descending(_)
Descending(S) ==
    IF S = {} THEN <<>>
    ELSE LET m == CHOOSE x \in S : \A y \in S : y <= x
         IN  <<m>> \o Descending(S \ {m})

\* get_source_models: the trt models get consecutive ids across the source
\* models and every source the id of its trt model. The n sources are
\* placed in the trt models by slot; near[i] tells whether
\* filter_sites_by_distance_to_source finds sites for source i. The source
\* ids are local to a source model and listed unsorted
get_source_models(n, slot, near) ==
    [m \in 1..NumModels |->
        LET before == Cardinality({i \in 1..n : slot[i] <= (m - 1) * TrtsPerModel})
        IN  [name |-> m,
             trt_models |->
                [t \in 1..TrtsPerModel |->
                    LET id == (m - 1) * TrtsPerModel + t - 1
                        idx == Descending({i \in 1..n : slot[i] = id + 1})
                    IN  [id |-> id,
                         sources |->
                            [j \in DOMAIN idx |->
                                [source_id |-> idx[j] - before,
                                 trt_model_id |-> id,
                                 near |-> near[idx[j]]]]]]]]

\* all the sources of a source model, trt model after trt model
RECURSIVE all_sources_from(_, _)
all_sources_from(trt_models, t) ==
    IF t > Len(trt_models) THEN <<>>
    ELSE trt_models[t].sources \o all_sources_from(trt_models, t + 1)

all_sources(source_model) == all_sources_from(source_model.trt_models, 1)

\* a worker answering from what the workers of its pool remember
sites_found_cached(src) ==
    IF src.source_id \in DOMAIN pool.cache
    THEN pool.cache[src.source_id]
    ELSE src.near

\* src.filter_sites_by_distance_to_source(maxdist, sitecol) is not None:
\* computed from the source and the sites, whatever the workers remember
sites_found(src) == src.near

\* filter_sources: the sources with sites within the maximum distance, by
\* trt_model_id; a trt model without such a source gets no key
filter_sources(srcs) ==
    [id \in {srcs[i].trt_model_id : i \in {j \in DOMAIN srcs : sites_found(srcs[j])}} |->
        SelectSeq(srcs, LAMBDA src : sites_found(src) /\ src.trt_model_id = id)]

\* sorted(sources, key=attrgetter('source_id'))
RECURSIVE sorted_by_source_id(_)
sorted_by_source_id(srcs) ==
    IF srcs = <<>> THEN <<>>
    ELSE LET i == CHOOSE i \in DOMAIN srcs :
                     \A j \in DOMAIN srcs :
                        \/ srcs[i].source_id < srcs[j].source_id
                        \/ srcs[i].source_id = srcs[j].source_id /\ i <= j
         IN  <<srcs[i]>> \o
             sorted_by_source_id(SubSeq(srcs, 1, i - 1) \o
                                 SubSeq(srcs, i + 1, Len(srcs)))

\* the keys of filtered in the order iteritems gives them: small integers
\* come in ascending order
RECURSIVE Ascending(_)
Ascending(S) ==
    IF S = {} THEN <<>>
    ELSE LET m == CHOOSE x \in S : \A y \in S : x <= y
         IN  <<m>> \o Ascending(S \ {m})

\* the inputs: at most MaxSources sources placed trt model after trt model
Placements(n) ==
    {f \in [1..n -> 1..NumSlots] :
        \A i \in 1..n : \A j \in 1..n : i <= j => f[i] <= f[j]}

\* args.restart tells whether the generator calls TaskManager.restart
InitFilter ==
    /\ InputIdle
    /\ ExecIdle
    /\ TileIdle
    /\ PostIdle
    /\ \E n \in 0..MaxSources : \E slot \in Placements(n) :
       \E near \in [1..n -> BOOLEAN] : \E restart \in BOOLEAN :
          args = [models |-> get_source_models(n, slot, near),
                  restart |-> restart]
    /\ out = [i |-> 1, source_model |-> <<>>, filtered |-> <<>>,
              todo |-> <<>>, yielded |-> <<>>]
    /\ pool = [generation |-> 0, cache |-> <<>>]

\* for source_model in get_source_models(...): apply_reduce runs
\* filter_sources on the workers of the pool, which remember what they
\* computed, and merges their dictionaries
NextSourceModel ==
    /\ pc = "init"
    /\ out.i <= Len(args.models)
    /\ LET source_model == args.models[out.i]
           srcs == all_sources(source_model)
           filtered == filter_sources(srcs)
           seen == {srcs[j].source_id : j \in DOMAIN srcs}
       IN  /\ out' = [out EXCEPT !.source_model = source_model,
                                 !.filtered = filtered,
                                 !.todo = Ascending(DOMAIN filtered)]
           /\ pool' = [pool EXCEPT !.cache =
                        [id \in DOMAIN pool.cache \cup seen |->
                            IF id \in seen
                            THEN sites_found(CHOOSE src \in {srcs[j] : j \in DOMAIN srcs} :
                                                src.source_id = id)
                            ELSE pool.cache[id]]]
    /\ pc' = "loop"
    /\ UNCHANGED <<args, blocks, status, queue, merged, acc, returned,
                   inputVars, tileVars, postVars>>

\* for trt_model_id, sources in filtered.iteritems(): the trt model gets
\* its sorted sources and the source model is yielded
FilteredItem ==
    /\ pc = "loop"
    /\ out.todo # <<>>
    /\ LET trt_model_id == Head(out.todo)
           sm == out.source_model
           t == CHOOSE t \in DOMAIN sm.trt_models :
                    sm.trt_models[t].id = trt_model_id
           updated == [sm EXCEPT !.trt_models[t].sources =
                          sorted_by_source_id(out.filtered[trt_model_id])]
       IN  IF updated.trt_models # <<>>
           THEN /\ out' = [out EXCEPT !.source_model = updated,
                                      !.todo = Tail(@),
                                      !.yielded = Append(@, updated)]
                /\ pc' = "yielded"
           ELSE /\ out' = [out EXCEPT !.source_model = updated,
                                      !.todo = Tail(@)]
                /\ pc' = "loop"
    /\ UNCHANGED <<args, pool, blocks, status, queue, merged, acc, returned,
                   inputVars, tileVars, postVars>>

\* TaskManager.restart: the pool is torn down and created again, the
\* workers of the new one remember nothing
restart(p) == [generation |-> p.generation + 1, cache |-> <<>>]

\* the consumer asks for the next source model: the generator resumes
\* after its yield
Resume ==
    /\ pc = "yielded"
    /\ pool' = IF args.restart THEN restart(pool) ELSE pool
    /\ pc' = "loop"
    /\ UNCHANGED <<args, out, blocks, status, queue, merged, acc, returned,
                   inputVars, tileVars, postVars>>

\* the loop over filtered is over: the next source model
EndOfItems ==
    /\ pc = "loop"
    /\ out.todo = <<>>
    /\ out' = [out EXCEPT !.i = @ + 1]
    /\ pc' = "init"
    /\ UNCHANGED <<args, pool, blocks, status, queue, merged, acc, returned,
                   inputVars, tileVars, postVars>>

\* the generator is exhausted
StopIteration ==
    /\ pc = "init"
    /\ out.i > Len(args.models)
    /\ pc' = "done"
    /\ UNCHANGED <<args, out, pool, blocks, status, queue, merged, acc,
                   returned, inputVars, tileVars, postVars>>

NextFilter ==
    \/ NextSourceModel
    \/ FilteredItem
    \/ Resume
    \/ EndOfItems
    \/ StopIteration

SpecFilter == InitFilter /\ [][NextFilter]_vars


\* the sources of a trt model with sites within the maximum distance, in
\* ascending order of source_id
CloseSources(trt_model) ==
    LET close == {trt_model.sources[j] : j \in {i \in DOMAIN trt_model.sources :
                                                    trt_model.sources[i].near}}
        ids == Ascending({src.source_id : src \in close})
    IN  [j \in DOMAIN ids |-> CHOOSE src \in close : src.source_id = ids[j]]

\* what the generator yields for one source model, from the input alone:
\* once per trt model with a close source, in the order of the trt model
\* ids, the trt models seen so far holding their close sources
YieldsOf(source_model) ==
    LET tm == source_model.trt_models
        keys == Ascending({tm[t].id : t \in {u \in DOMAIN tm :
                                                CloseSources(tm[u]) # <<>>}})
    IN  [k \in DOMAIN keys |->
            [source_model EXCEPT !.trt_models =
                [t \in DOMAIN tm |->
                    IF \E j \in 1..k : keys[j] = tm[t].id
                    THEN [tm[t] EXCEPT !.sources = CloseSources(tm[t])]
                    ELSE tm[t]]]]

RECURSIVE YieldsFrom(_, _)
YieldsFrom(models, i) ==
    IF i > Len(models) THEN <<>>
    ELSE YieldsOf(models[i]) \o YieldsFrom(models, i + 1)

\* C20: the source models yielded by get_filtered_source_models, and the
\* filtered sources they hold when yielded, are determined by the input
\* source models alone: they are the same with the calls of
\* TaskManager.restart between the yields as without them, whatever the
\* pool went through
C20_RestartDoesNotChangeYields ==
    LET expected == YieldsFrom(args.models, 1)
    IN  IF pc = "done"
        THEN out.yielded = expected
        ELSE out.yielded = SubSeq(expected, 1, Len(out.yielded))

\* the generator has finished with restarts, after yielding two different
\* source models, one of them with a source filtered out, both holding a
\* source of the same id
C20_Witness ==
    /\ pc = "done"
    /\ args.restart
    /\ pool.generation >= 2
    /\ \E j \in DOMAIN out.yielded : \E k \in DOMAIN out.yielded :
          /\ out.yielded[j].name # out.yielded[k].name
          /\ \E s1 \in {all_sources(out.yielded[j])[x] :
                            x \in DOMAIN all_sources(out.yielded[j])} :
             \E s2 \in {all_sources(out.yielded[k])[x] :
                            x \in DOMAIN all_sources(out.yielded[k])} :
                s1.source_id = s2.source_id
    /\ \E j \in DOMAIN out.yielded :
          Len(all_sources(out.yielded[j])) <
          Len(all_sources(args.models[out.yielded[j].name]))



\* the source models keeping a close source, each once and in the order of
\* the input, every trt model holding its close sources
RECURSIVE FilteredOnce(_, _)
FilteredOnce(models, i) ==
    IF i > Len(models) THEN <<>>
    ELSE LET tm == models[i].trt_models
             kept == [models[i] EXCEPT !.trt_models =
                        [t \in DOMAIN tm |->
                            [tm[t] EXCEPT !.sources = CloseSources(tm[t])]]]
         IN  (IF \E t \in DOMAIN tm : CloseSources(tm[t]) # <<>>
              THEN <<kept>> ELSE <<>>) \o FilteredOnce(models, i + 1)

\* C22: get_filtered_source_models yields, in the order of the logic tree,
\* each source model keeping a source within the maximum distance exactly
\* once, skips the source models left empty, and every trt model of a
\* yielded source model holds exactly its sources that passed the filter,
\* sorted by source_id
C22_EachModelOnceFiltered ==
    pc = "done" => out.yielded = FilteredOnce(args.models, 1)


\* ------------------------------------------ get_composite_source_model
\* what the workers of the pool remember after filtering the sources
workers_cache(p, srcs) ==
    LET seen == {srcs[j].source_id : j \in DOMAIN srcs}
    IN  [id \in DOMAIN p.cache \cup seen |->
            IF id \in seen
            THEN sites_found(CHOOSE src \in {srcs[j] : j \in DOMAIN srcs} :
                                src.source_id = id)
            ELSE p.cache[id]]

\* TrtModel.split_sources_and_count_ruptures: the sources are split, the
\* parts of a source keeping its trt_model_id; a source is not divided here
split_sources_and_count_ruptures(trt_model) == trt_model

\* the body of the loop of get_composite_source_model on a source model:
\* its trt models are numbered from trt_id on, and split when prefiltering
numbered(source_model, trt_id, prefilter) ==
    [source_model EXCEPT !.trt_models =
        [t \in DOMAIN source_model.trt_models |->
            LET trt_model == [source_model.trt_models[t] EXCEPT !.id = trt_id + t - 1]
            IN  IF prefilter THEN split_sources_and_count_ruptures(trt_model)
                ELSE trt_model]]

\* out.objects are the source models as objects, by name; out.smodels and
\* out.trt_by_id refer to them
InitComposite ==
    /\ InputIdle
    /\ ExecIdle
    /\ TileIdle
    /\ PostIdle
    /\ \E n \in 0..MaxSources : \E slot \in Placements(n) :
       \E near \in [1..n -> BOOLEAN] : \E prefilter \in BOOLEAN :
          /\ args = [models |-> get_source_models(n, slot, near),
                     prefilter |-> prefilter]
          /\ out = [i |-> 1, objects |-> get_source_models(n, slot, near),
                    trt_by_id |-> <<>>, filtered |-> <<>>, todo |-> <<>>,
                    smodels |-> <<>>, trt_id |-> 0, csm |-> <<>>]
    /\ pool = [generation |-> 0, cache |-> <<>>]

\* get_sm gets to its next source model: get_source_models yields it,
\* get_filtered_source_models filters its sources first
CompositeNextSourceModel ==
    /\ pc = "init"
    /\ out.i <= Len(out.objects)
    /\ IF args.prefilter
       THEN LET source_model == out.objects[out.i]
                srcs == all_sources(source_model)
                filtered == filter_sources(srcs)
            IN  /\ out' = [out EXCEPT
                            !.trt_by_id =
                                [id \in {source_model.trt_models[t].id :
                                            t \in DOMAIN source_model.trt_models} |->
                                    CHOOSE t \in DOMAIN source_model.trt_models :
                                        source_model.trt_models[t].id = id],
                            !.filtered = filtered,
                            !.todo = Ascending(DOMAIN filtered)]
                /\ pool' = [pool EXCEPT !.cache = workers_cache(pool, srcs)]
                /\ pc' = "loop"
       ELSE /\ pc' = "yielded"
            /\ UNCHANGED <<out, pool>>
    /\ UNCHANGED <<args, blocks, status, queue, merged, acc, returned,
                   inputVars, tileVars, postVars>>

\* for trt_model_id, sources in filtered.iteritems(): the trt model that
\* trt_by_id holds under the key gets the sorted sources, and the source
\* model is yielded
CompositeFilteredItem ==
    /\ pc = "loop"
    /\ out.todo # <<>>
    /\ LET trt_model_id == Head(out.todo)
           t == out.trt_by_id[trt_model_id]
       IN  out' = [out EXCEPT
                    !.objects[out.i].trt_models[t].sources =
                        sorted_by_source_id(out.filtered[trt_model_id]),
                    !.todo = Tail(@)]
    /\ pc' = IF out'.objects[out.i].trt_models # <<>> THEN "yielded" ELSE "loop"
    /\ UNCHANGED <<args, pool, blocks, status, queue, merged, acc, returned,
                   inputVars, tileVars, postVars>>

\* the body of the loop of get_composite_source_model on the source model
\* just yielded
Consume ==
    /\ pc = "yielded"
    /\ out' = [out EXCEPT
                !.objects[out.i] = numbered(@, out.trt_id, args.prefilter),
                !.trt_id = @ + Len(out.objects[out.i].trt_models),
                !.smodels = Append(@, out.i)]
    /\ pc' = "consumed"
    /\ UNCHANGED <<args, pool, blocks, status, queue, merged, acc, returned,
                   inputVars, tileVars, postVars>>

\* the loop asks for the next source model: get_filtered_source_models
\* restarts the pool and goes on with the items of filtered,
\* get_source_models goes to its next source model
CompositeResume ==
    /\ pc = "consumed"
    /\ IF args.prefilter
       THEN /\ pool' = restart(pool)
            /\ pc' = "loop"
            /\ out' = out
       ELSE /\ out' = [out EXCEPT !.i = @ + 1]
            /\ pc' = "init"
            /\ pool' = pool
    /\ UNCHANGED <<args, blocks, status, queue, merged, acc, returned,
                   inputVars, tileVars, postVars>>

CompositeEndOfItems ==
    /\ pc = "loop"
    /\ out.todo = <<>>
    /\ out' = [out EXCEPT !.i = @ + 1]
    /\ pc' = "init"
    /\ UNCHANGED <<args, pool, blocks, status, queue, merged, acc, returned,
                   inputVars, tileVars, postVars>>

\* csm = source.CompositeSourceModel(source_model_lt, smodels)
CompositeReturn ==
    /\ pc = "init"
    /\ out.i > Len(out.objects)
    /\ out' = [out EXCEPT !.csm = [j \in DOMAIN out.smodels |->
                                      out.objects[out.smodels[j]]]]
    /\ pc' = "done"
    /\ UNCHANGED <<args, pool, blocks, status, queue, merged, acc, returned,
                   inputVars, tileVars, postVars>>

NextComposite ==
    \/ CompositeNextSourceModel
    \/ CompositeFilteredItem
    \/ Consume
    \/ CompositeResume
    \/ CompositeEndOfItems
    \/ CompositeReturn

SpecComposite == InitComposite /\ [][NextComposite]_vars

\* the trt models of the composite source model, source model after source
\* model
CsmTrtModels == Concat([j \in DOMAIN out.csm |-> out.csm[j].trt_models])

\* C23: in the CompositeSourceModel returned by get_composite_source_model,
\* with or without prefiltering, the ids of the trt models are 0..n-1 in
\* order across the source models, hence pairwise distinct, and every
\* source of a trt model has the id of the trt model as trt_model_id
C23_TrtModelIdsConsistent ==
    pc = "done" =>
        \A j \in DOMAIN CsmTrtModels :
            /\ CsmTrtModels[j].id = j - 1
            /\ \A x \in DOMAIN CsmTrtModels[j].sources :
                  CsmTrtModels[j].sources[x].trt_model_id = CsmTrtModels[j].id

\* ------------------------------------------------------- get_job_info
NORMALIZATION_FACTOR == <<1, 100>>      \* 1E-2

FrenchbugLevels == 29   \* the levels of the one IMT of frenchbug.zip

\* a value that may be None: <<>> is None, <<x>> is x
None == <<>>

\* len(ls) for ls in imtls.itervalues()
RECURSIVE sum_len(_)
sum_len(values) ==
    IF values = <<>> THEN 0 ELSE Len(Head(values)[1]) + sum_len(Tail(values))

\* the division of the sum by n_imts with the fraction dropped
n_levels_floor(imtls) ==
    IF \E i \in DOMAIN imtls : imtls[i] = None
    THEN Zero
    ELSE Frac(sum_len(imtls) \div Len(imtls), 1)

\* n_levels: 0 when some IMT has no levels, else
\* sum(len(ls) for ls in imtls.itervalues()) / float(n_imts)
n_levels(imtls) ==
    IF \E i \in DOMAIN imtls : imtls[i] = None
    THEN Zero
    ELSE Frac(sum_len(imtls), Len(imtls))

\* src.weight or 0
weight_or_0(src) == IF src.weight = None THEN 0 ELSE src.weight[1]

\* sum((src.weight or 0) * src_model.samples for src_model in source_models
\*     for trt_model in src_model.trt_models for src in trt_model)
RECURSIVE input_weight(_, _, _, _)
input_weight(source_models, m, t, j) ==
    IF m > Len(source_models) THEN 0
    ELSE IF t > Len(source_models[m].trt_models)
    THEN input_weight(source_models, m + 1, 1, 1)
    ELSE IF j > Len(source_models[m].trt_models[t])
    THEN input_weight(source_models, m, t + 1, 1)
    ELSE weight_or_0(source_models[m].trt_models[t][j]) * source_models[m].samples
         + input_weight(source_models, m, t, j + 1)

\* sum(sm.gsim_lt.get_num_paths() for sm in source_models)
RECURSIVE sum_num_paths(_)
sum_num_paths(source_models) ==
    IF source_models = <<>> THEN 0
    ELSE Head(source_models).num_paths + sum_num_paths(Tail(source_models))

\* oqparam.number_of_logic_tree_samples or sum(...)
max_realizations(oq, source_models) ==
    IF oq.number_of_logic_tree_samples # 0
    THEN oq.number_of_logic_tree_samples
    ELSE sum_num_paths(source_models)

get_job_info(oq, source_models, sites) ==
    LET n_sites == Len(sites)
        n_imts == Len(oq.imtls)
        base == Frac(n_sites * n_imts * max_realizations(oq, source_models), 1)
        total_time == Frac(oq.investigation_time * oq.ses_per_logic_tree_path, 1)
    IN  [input_weight |-> input_weight(source_models, 1, 1, 1),
         output_weight |->
            IF oq.calculation_mode = "event_based"
            THEN FMul(base, FMul(total_time, NORMALIZATION_FACTOR))
            ELSE FMul(base, n_levels(oq.imtls)),
         n_imts |-> n_imts,
         n_levels |-> n_levels(oq.imtls),
         n_sites |-> n_sites,
         max_realizations |-> max_realizations(oq, source_models)]

\* the levels of an IMT
Levels(n) == [j \in 1..n |-> j]

\* the dictionaries of IMTs: one or two IMTs, with or without levels, and
\* the one of frenchbug.zip
ImtlsValues ==
    LET ls == {None, <<Levels(1)>>, <<Levels(MaxLevel)>>}
    IN  {<<a>> : a \in ls} \cup {<<a, b>> : a \in ls, b \in ls}
        \cup {<< <<Levels(FrenchbugLevels)>> >>}

\* the trt models of a source model, a source being its weight: no source,
\* one source without weight, two trt models of three sources
TrtModelsValues ==
    {<< <<>> >>,
     << <<[weight |-> None]>> >>,
     << <<[weight |-> <<MaxWeight>>]>>,
        <<[weight |-> None], [weight |-> <<1>>]>> >>}

\* the source models have one sample each without sampling, and the
\* samples counted in number_of_logic_tree_samples with it
InitJobInfo ==
    /\ InputIdle
    /\ ExecIdle
    /\ TileIdle
    /\ PostIdle
    /\ \E k \in 1..NumModels : \E sampling \in BOOLEAN :
       \E samples \in [1..k -> 1..2] : \E paths \in [1..k -> 1..2] :
       \E tms \in [1..k -> TrtModelsValues] :
       \E imtls \in ImtlsValues : \E n \in {1, MaxSites} :
       \E mode \in {"classical", "event_based"} :
          /\ sampling => \A m \in 1..k : paths[m] = 1
          /\ ~sampling => \A m \in 1..k : samples[m] = 1
          /\ args = [oqparam |->
                        [calculation_mode |-> mode,
                         imtls |-> imtls,
                         number_of_logic_tree_samples |->
                            IF sampling
                            THEN sum_num_paths([m \in 1..k |-> [num_paths |-> samples[m]]])
                            ELSE 0,
                         investigation_time |-> 50,
                         ses_per_logic_tree_path |-> 1],
                     source_models |->
                        [m \in 1..k |-> [samples |-> samples[m],
                                         num_paths |-> paths[m],
                                         trt_models |-> tms[m]]],
                     sitecol |-> SiteCollection(n)]
    /\ out = <<>>
    /\ pool = <<>>

ApplyGetJobInfo ==
    /\ out = <<>>
    /\ out' = get_job_info(args.oqparam, args.source_models, args.sitecol)
    /\ UNCHANGED <<args, pool, inputVars, execVars, tileVars, postVars>>

NextJobInfo == ApplyGetJobInfo

SpecJobInfo == InitJobInfo /\ [][NextJobInfo]_vars

\* the weights of the sources of a source model
ModelWeights(sm) ==
    LET srcs == Concat(sm.trt_models)
    IN  [j \in DOMAIN srcs |-> IF srcs[j].weight = <<>> THEN 0 ELSE srcs[j].weight[1]]

RECURSIVE SumInts(_)
SumInts(s) == IF s = <<>> THEN 0 ELSE Head(s) + SumInts(Tail(s))

\* C21: for every calculation mode other than event_based and levels known
\* for every IMT, output_weight is n_sites * n_imts * max_realizations *
\* n_levels with n_levels the mean number of levels per IMT, and
\* input_weight is the sum over the sources of the weight (0 when missing)
\* times the samples of the source model
C21_JobInfoWeights ==
    out # <<>> =>
        LET oq == args.oqparam
            sms == args.source_models
            total == SumInts([i \in DOMAIN oq.imtls |->
                        IF oq.imtls[i] = None THEN 0 ELSE Len(oq.imtls[i][1])])
        IN  /\ out.input_weight =
                  SumInts([m \in DOMAIN sms |->
                              sms[m].samples * SumInts(ModelWeights(sms[m]))])
            /\ (oq.calculation_mode # "event_based" /\
                \A i \in DOMAIN oq.imtls : oq.imtls[i] # None) =>
                  /\ out.n_levels[1] * out.n_imts = total * out.n_levels[2]
                  /\ out.output_weight[1] * out.n_imts =
                        out.n_sites * out.n_imts * out.max_realizations
                        * total * out.output_weight[2]
                  /\ out.n_sites = Len(args.sitecol)
                  /\ out.n_imts = Len(oq.imtls)
                  /\ (out.n_sites = 1 /\ out.n_imts = 1 /\
                      out.max_realizations = 1 /\ total = FrenchbugLevels) =>
                        out.output_weight = <<FrenchbugLevels, 1>>

\* a classical job with several sites, two IMTs whose mean number of levels
\* is not a whole number, and source models with different samples holding
\* a source without weight
C21_Witness ==
    /\ out # <<>>
    /\ args.oqparam.calculation_mode = "classical"
    /\ out.n_imts = 2
    /\ out.n_levels[2] = 2
    /\ out.n_sites > 1
    /\ out.input_weight > 0
    /\ \E m \in DOMAIN args.source_models : \E k \in DOMAIN args.source_models :
          /\ args.source_models[m].samples # args.source_models[k].samples
          /\ \E j \in DOMAIN ModelWeights(args.source_models[m]) :
                Concat(args.source_models[m].trt_models)[j].weight = None


\* ------------------------------------------------------- scenario_risk
MaxRlzs == 2            \* realizations of the association
MaxOutputs == 2         \* outputs generated by the risk model

RECURSIVE row_sum(_)
row_sum(row) == IF row = <<>> THEN 0 ELSE Head(row) + row_sum(Tail(row))

\* the root of a square
ISqrt(n) == CHOOSE r \in 0..n : r * r = n

\* matrix.mean(axis=1): the mean of every row
mean_axis1(matrix) ==
    [j \in DOMAIN matrix |-> Frac(row_sum(matrix[j]), Len(matrix[j]))]

\* matrix.std(ddof=1, axis=1): the sample standard deviation of every row
std_axis1(matrix) ==
    [j \in DOMAIN matrix |->
        LET n == Len(matrix[j])
            total == row_sum(matrix[j])
            var == Frac(row_sum([e \in 1..n |-> (n * matrix[j][e] - total)
                                                 * (n * matrix[j][e] - total)]),
                        n * n * (n - 1))
        IN  <<ISqrt(var[1]), ISqrt(var[2])>>]

\* zip(a, b, c): as long as the shortest of the three
zip3(a, b, c) ==
    LET n == CHOOSE m \in {Len(a), Len(b), Len(c)} :
                 m <= Len(a) /\ m <= Len(b) /\ m <= Len(c)
    IN  [i \in 1..n |-> <<a[i], b[i], c[i]>>]

\* lpa: [(a.id, m, s) for a, m, s in zip(assets, means, stddevs)]
lpa(assets, means, stddevs) ==
    LET z == zip3(assets, means, stddevs)
    IN  [i \in DOMAIN z |-> <<z[i][1].id, z[i][2], z[i][3]>>]

\* the sum of two values of an AccumDict: lists are concatenated, arrays
\* added element by element
value_add(k, v, w) ==
    IF k[1] = "asset-loss" \/ k[1] = "asset-ins"
    THEN v \o w
    ELSE [e \in DOMAIN v |-> v[e] + w[e]]

\* AccumDict.__iadd__ with a dictionary of one item {k: v}
iadd(d, k, v) ==
    [x \in DOMAIN d \cup {k} |->
        IF x # k THEN d[x]
        ELSE IF k \in DOMAIN d THEN value_add(k, d[k], v) ELSE v]

\* everything is accumulated under the first realization
out_ordinal_first(o) == 0

\* result[out.hid]
out_ordinal(o) == o.hid

\* the body of the loop on an output; means = out.loss_matrix.mean(axis=1),
\* is a tuple of one item, the array of the means
accumulate_out(result, o) ==
    LET h == out_ordinal(o)
        means == << mean_axis1(o.loss_matrix) >>
        stddevs == std_axis1(o.loss_matrix)
        r1 == iadd(result[h], <<"asset-loss", o.loss_type>>,
                   lpa(o.assets, means, stddevs))
        r2 == iadd(r1, <<"agg", o.loss_type>>, o.aggregate_losses)
        imeans == << mean_axis1(o.insured_loss_matrix[1]) >>
        istddevs == std_axis1(o.insured_loss_matrix[1])
        r3 == iadd(r2, <<"asset-ins", o.loss_type>>,
                   lpa(o.assets, imeans, istddevs))
        r4 == iadd(r3, <<"ins", o.loss_type>>, o.insured_losses[1])
    IN  [result EXCEPT ![h] = IF o.insured_loss_matrix # None THEN r4 ELSE r2]

RECURSIVE accumulate_from(_, _, _)
accumulate_from(result, outputs, i) ==
    IF i > Len(outputs) THEN result
    ELSE accumulate_from(accumulate_out(result, outputs[i]), outputs, i + 1)

\* scenario_risk: an AccumDict per realization ordinal, then the outputs
scenario_risk(outputs, rlzs) ==
    accumulate_from([ordinal \in rlzs |-> <<>>], outputs, 1)

\* the sum of the rows of a matrix, event by event
aggregate(matrix) ==
    [e \in DOMAIN matrix[1] |-> row_sum([j \in DOMAIN matrix |-> matrix[j][e]])]

\* the outputs of the risk model: one asset or two, a loss matrix of three
\* events per asset, with or without insured losses
Outputs(R) ==
    {[hid |-> h, loss_type |-> lt,
      assets |-> [j \in 1..n |-> [id |-> j]],
      loss_matrix |-> [j \in 1..n |-> <<j, 3 * j, 5 * j>>],
      aggregate_losses |-> aggregate([j \in 1..n |-> <<j, 3 * j, 5 * j>>]),
      insured_loss_matrix |->
          IF ins THEN << [j \in 1..n |-> <<0, j, 2 * j>>] >> ELSE None,
      insured_losses |->
          IF ins THEN << aggregate([j \in 1..n |-> <<0, j, 2 * j>>]) >> ELSE None] :
        h \in 0..(R - 1), lt \in {"structural", "contents"},
        n \in 1..2, ins \in BOOLEAN}

InitScenario ==
    /\ InputIdle
    /\ ExecIdle
    /\ TileIdle
    /\ PostIdle
    /\ \E R \in 1..MaxRlzs : \E n \in 0..MaxOutputs :
       \E outputs \in [1..n -> Outputs(R)] :
          args = [rlzs |-> 0..(R - 1), outputs |-> outputs]
    /\ out = <<>>
    /\ pool = <<>>

ApplyScenarioRisk ==
    /\ out = <<>>
    /\ out' = [result |-> scenario_risk(args.outputs, args.rlzs)]
    /\ UNCHANGED <<args, pool, inputVars, execVars, tileVars, postVars>>

NextScenario == ApplyScenarioRisk

SpecScenario == InitScenario /\ [][NextScenario]_vars


\* one (asset id, mean loss, stddev) triple for every asset, in asset order
TriplePerAsset(assets, matrix) ==
    [j \in DOMAIN assets |->
        <<assets[j].id, mean_axis1(matrix)[j], std_axis1(matrix)[j]>>]

\* the outputs of realization h and loss type lt, in the order generated
OutputsOf(h, lt) ==
    SelectSeq(args.outputs, LAMBDA o : o.hid = h /\ o.loss_type = lt)

InsuredOutputsOf(h, lt) ==
    SelectSeq(args.outputs, LAMBDA o : o.hid = h /\ o.loss_type = lt
                                       /\ o.insured_loss_matrix # None)

LossTypes == {args.outputs[i].loss_type : i \in DOMAIN args.outputs}

\* C27: for each output the ('asset-loss', loss_type) value accumulated in
\* the result, and the ('asset-ins', loss_type) value when present, holds
\* exactly one (asset id, mean loss, stddev) triple for every asset of the
\* output, in asset order: lpa returns as many triples as there are assets
C27_TriplePerAsset ==
    out # <<>> =>
        \A h \in args.rlzs : \A lt \in LossTypes :
            /\ OutputsOf(h, lt) # <<>> =>
                  out.result[h][<<"asset-loss", lt>>] =
                      Concat([i \in DOMAIN OutputsOf(h, lt) |->
                                TriplePerAsset(OutputsOf(h, lt)[i].assets,
                                               OutputsOf(h, lt)[i].loss_matrix)])
            /\ InsuredOutputsOf(h, lt) # <<>> =>
                  out.result[h][<<"asset-ins", lt>>] =
                      Concat([i \in DOMAIN InsuredOutputsOf(h, lt) |->
                                TriplePerAsset(InsuredOutputsOf(h, lt)[i].assets,
                                               InsuredOutputsOf(h, lt)[i].insured_loss_matrix[1])])

RECURSIVE SumArrays(_)
SumArrays(arrays) ==
    IF Len(arrays) = 1 THEN arrays[1]
    ELSE [e \in DOMAIN arrays[1] |-> arrays[1][e] + SumArrays(Tail(arrays))[e]]

MaxInis == 2

Candidates ==
    {<<"job_hazard", "ini">>, <<"job_haz", "ini">>,
     <<"job", "ini">>, <<"job_risk", "ini">>}

basename(f) == <<f.stem, f.ext>>

dirname(f) == f.dir

endswith(f, ext) == f.ext = ext

exists(fs, f) == f \in fs

TempDir == <<"tmp">>

\* archive.extractall(temp_dir): every member lands under the directory
extractall(archive, temp_dir) ==
    {[dir |-> temp_dir \o m.dir, stem |-> m.stem, ext |-> m.ext] : m \in archive}

\* the lists os.listdir may produce the files in
collect_files(files) ==
    {fl \in [1..Cardinality(files) -> files] :
        \A i, j \in 1..Cardinality(files) : fl[i] = fl[j] => i = j}

extract_from_zip(listed, candidates) ==
    SelectSeq(listed, LAMBDA f : basename(f) \in candidates)

\* the mutant of not_found: a file counts as found whether it exists or not
not_found_none(job_inis, fs) == <<>>

not_found(job_inis, fs) == SelectSeq(job_inis, LAMBDA ini : ~exists(fs, ini))

Raise(exc, message) == [raises |-> exc, message |-> message, value |-> <<>>]

\* the test and what follows it, on the job files as they are after the
\* extraction; `% not_found[0]` is evaluated before IOError is constructed
read_params(job_inis, fs) ==
    IF Len(not_found(job_inis, fs)) = Len(job_inis)
    THEN IF not_found(job_inis, fs) = <<>>
         THEN Raise("IndexError", <<>>)
         ELSE Raise("IOError", <<not_found(job_inis, fs)[1]>>)
    ELSE [raises |-> "None", message |-> <<>>,
          value |-> <<[base_path |-> dirname(job_inis[1]),
                       job_ini |-> job_inis,
                       read |-> SelectSeq(job_inis, LAMBDA ini : exists(fs, ini))]>>]

IsZip(job_inis) == Len(job_inis) = 1 /\ endswith(job_inis[1], "zip")

\* listed: the order in which the extracted files are collected; opening an
\* archive that does not exist raises IOError
get_params(job_inis, fs, archive, listed) ==
    IF IsZip(job_inis)
    THEN IF ~exists(fs, job_inis[1])
         THEN Raise("IOError", <<job_inis[1]>>)
         ELSE read_params(extract_from_zip(listed, Candidates),
                          fs \cup extractall(archive, TempDir))
    ELSE read_params(job_inis, fs)

GivenPaths ==
    {[dir |-> <<"demo">>, stem |-> "job", ext |-> "ini"],
     [dir |-> <<"demo">>, stem |-> "job_risk", ext |-> "ini"],
     [dir |-> <<"demo">>, stem |-> "other", ext |-> "ini"],
     [dir |-> <<"demo">>, stem |-> "archive", ext |-> "zip"]}

Members ==
    {[dir |-> <<>>, stem |-> "job", ext |-> "ini"],
     [dir |-> <<"sub">>, stem |-> "job_haz", ext |-> "ini"],
     [dir |-> <<>>, stem |-> "readme", ext |-> "txt"]}

InitParams ==
    /\ InputIdle
    /\ ExecIdle
    /\ TileIdle
    /\ PostIdle
    /\ \E n \in 0..MaxInis : \E job_inis \in [1..n -> GivenPaths] :
       \E fs \in SUBSET GivenPaths : \E archive \in SUBSET Members :
          args = [job_inis |-> job_inis, fs |-> fs, archive |-> archive]
    /\ out = <<>>
    /\ pool = <<>>

ApplyGetParams ==
    /\ out = <<>>
    /\ \E listed \in collect_files(extractall(args.archive, TempDir)) :
          out' = get_params(args.job_inis, args.fs, args.archive, listed)
    /\ UNCHANGED <<args, pool, inputVars, execVars, tileVars, postVars>>

NextParams == ApplyGetParams

SpecParams == InitParams /\ [][NextParams]_vars

\* the job files get_params is given: the candidates of the archive when it is
\* given an archive, the files of the list otherwise
NoJobFileExists ==
    IF IsZip(args.job_inis)
    THEN \/ ~exists(args.fs, args.job_inis[1])
         \/ \A m \in args.archive : basename(m) \notin Candidates
    ELSE \A i \in DOMAIN args.job_inis : ~exists(args.fs, args.job_inis[i])

\* C29: when get_params is given a single zip archive that holds none of the
\* candidate job files, an IOError is raised; more generally get_params raises
\* IOError exactly when none of the given job files exists, and does not raise
\* for that reason when at least one exists.
C29_IOErrorIffNoJobFile ==
    out # <<>> =>
        /\ (/\ IsZip(args.job_inis)
            /\ exists(args.fs, args.job_inis[1])
            /\ \A m \in args.archive : basename(m) \notin Candidates)
           => out.raises = "IOError"
        /\ out.raises = "IOError" <=> NoJobFileExists
        /\ ~NoJobFileExists => out.raises = "None"


\* ---------------------------------------------------------------------------
\* get_exposure: the asset nodes of the exposure file are read one at a time
\* (the file is read lazily), each one either kept, discarded as out of the
\* region, or the cause of an exception that ends the reading.
\*
\* An asset node is a record [id, location, number, costs]: number is None or
\* <<n>>, costs the set of the cost types the node gives a value for. The
\* region is None or <<the set of the locations within it>>.

MaxAssets == 3

AssetIds == {"a1", "a2", "a3"}

Locations == {"inside", "outside"}

CostTypes == {"structural"}

AssetNodes ==
    {[id |-> id, location |-> loc, number |-> number, costs |-> costs] :
        id \in AssetIds, loc \in Locations,
        number \in {None, <<2>>}, costs \in SUBSET CostTypes}

\* geometry.Point(*location).within(region)
within(location, region) == location \in region[1]

\* the mutant of registered: no asset id is ever remembered
registered_never(asset_refs, asset_id) == FALSE

\* asset_id in asset_refs
registered(asset_refs, asset_id) == asset_id \in asset_refs

\* relevant_cost_types - set(values)
missing(oq, node) == oq.relevant_cost_types \ node.costs

\* the body of the loop on one asset node, on the state st of the reading
read_asset(oq, st, node) ==
    LET read == Append(st.read, node)
        refs == st.asset_refs \cup {node.id}
        number == IF node.number = None THEN 1 ELSE node.number[1]
    IN IF registered(st.asset_refs, node.id)
       THEN [st EXCEPT !.read = read, !.pc = "raised",
                       !.raises = "DuplicatedID"]
       ELSE IF oq.damage /\ node.number = None
       THEN [st EXCEPT !.read = read, !.asset_refs = refs, !.pc = "raised",
                       !.raises = "KeyError"]
       ELSE IF oq.region # None /\ ~within(node.location, oq.region)
       THEN [st EXCEPT !.read = read, !.asset_refs = refs,
                       !.out_of_region = @ + 1]
       ELSE IF /\ missing(oq, node) # {}
               /\ ~(missing(oq, node) \subseteq oq.ignore_missing_costs)
       THEN [st EXCEPT !.read = read, !.asset_refs = refs, !.pc = "raised",
                       !.raises = "ValueError"]
       ELSE [st EXCEPT !.read = read, !.asset_refs = refs,
                       !.assets = Append(@, [id |-> node.id,
                                             location |-> node.location,
                                             number |-> number,
                                             values |-> node.costs])]

InitExposure ==
    /\ InputIdle
    /\ ExecIdle
    /\ TileIdle
    /\ PostIdle
    /\ \E region \in {None, <<{"inside"}>>} : \E damage \in BOOLEAN :
       \E ignore \in SUBSET CostTypes :
          args = [region |-> region, damage |-> damage,
                  relevant_cost_types |-> CostTypes,
                  ignore_missing_costs |-> ignore]
    /\ out = [pc |-> "reading", read |-> <<>>, asset_refs |-> {},
              assets |-> <<>>, out_of_region |-> 0, raises |-> "None"]
    /\ pool = <<>>

\* for asset in asset_gen(): one more node of the file
ReadAsset ==
    /\ out.pc = "reading"
    /\ Len(out.read) < MaxAssets
    /\ \E node \in AssetNodes : out' = read_asset(args, out, node)
    /\ UNCHANGED <<args, pool, inputVars, execVars, tileVars, postVars>>

\* the file has no more asset nodes: return exposure
ReturnExposure ==
    /\ out.pc = "reading"
    /\ out' = [out EXCEPT !.pc = "returned"]
    /\ UNCHANGED <<args, pool, inputVars, execVars, tileVars, postVars>>

NextExposure == ReadAsset \/ ReturnExposure

SpecExposure == InitExposure /\ [][NextExposure]_vars

\* the id of the last node read occurs in an earlier node
SecondOccurrence(read) ==
    \E i \in 1..(Len(read) - 1) : read[i].id = read[Len(read)].id

\* C30: DuplicatedID is raised as soon as an asset id occurs a second time,
\* even when the earlier asset with that id was discarded as out of the
\* region; on success the ids of exposure.assets are pairwise distinct, every
\* kept asset lies within the region when one is set, and the kept assets plus
\* the assets discarded as out of region are as many as the asset nodes read.
C30_DuplicatedIdAndCounts ==
    /\ (out.read # <<>> /\ SecondOccurrence(out.read))
          => out.pc = "raised" /\ out.raises = "DuplicatedID"
    /\ out.raises = "DuplicatedID"
          => out.read # <<>> /\ SecondOccurrence(out.read)
    /\ out.pc = "returned" =>
          /\ \A i, j \in DOMAIN out.assets :
                out.assets[i].id = out.assets[j].id => i = j
          /\ args.region # None =>
                \A i \in DOMAIN out.assets :
                    within(out.assets[i].location, args.region)
          /\ Len(out.assets) + out.out_of_region = Len(out.read)

\* an id repeated after its first asset was discarded as out of the region
C30_Witness ==
    /\ out.raises = "DuplicatedID"
    /\ Len(out.read) = 3
    /\ out.out_of_region = 1
    /\ Len(out.assets) = 1
    /\ out.read[1].id = out.read[3].id
    /\ out.read[1].location = "outside"

====
